---- MODULE Spec2Model ----
(***************************************************************************)
(* RagService (backend/src/services/databaseService.ts): the data source   *)
(* lifecycle (createDataSource, autoProcessDataSource, retry, update,       *)
(* delete) and the retrieval orchestrator (retrieveContext).               *)
(*                                                                         *)
(* An async method is cut at its awaits: one action per resumption.  A     *)
(* JavaScript object reference held across an await is modelled by a flag  *)
(* telling whether the referenced object is still the one stored in the    *)
(* service's Map (updateDataSource and autoProcessDataSource replace Map    *)
(* entries by new objects; writes through an old reference are then not    *)
(* visible through the Map).                                               *)
(***************************************************************************)
EXTENDS Integers, Sequences, FiniteSets, TLC

VARIABLES
  dataSources,   \* RagService.dataSources : Map<id, DataSource>
  vectorStores,  \* RagService.vectorStores : Map<id, VectorStore>
  collections,   \* the ChromaDB collection rag_datastore_<id> of each source id: its records
  db,            \* the durable rows of prisma.ragDataSource
  runs,          \* the invocations of autoProcessDataSource, scheduled or in flight
  usedIds,       \* the ids uuidv4() has handed out
  apiKey,        \* process.env.OPENAI_API_KEY is set
  rc,            \* the outcome of the last retrieveContext call
  fn,            \* the last application of a helper method: arguments and result
  boot,          \* the startup of RagService and AgentService: positions, agent rows, AgentService.agents
  mcp            \* McpServerService: servers Map, McpServer objects, child processes, calls in flight

vars == <<dataSources, vectorStores, collections, db, runs, usedIds, apiKey, rc, fn, boot, mcp>>

lifecycleVars == <<dataSources, vectorStores, collections, db, runs, usedIds, apiKey>>

----------------------------------------------------------------------------
(* Bounds of the model *)

\* at most this many autoProcessDataSource invocations are scheduled
MaxRuns == 2

\* the ids uuidv4() may return
SourceIds == {"s1"}

(* Program constants *)

\* documentCount?: number, vectorCount?: number -- the field is undefined
Undefined == -1

\* const chunkSize = 10 (rows per CSV chunk)
CsvChunkRows == 10

\* const batchSize = 50
batchSize == 50

\* const maxRetries = 3
maxRetries == 3

Statuses == {"configured", "processing", "ready", "error"}

----------------------------------------------------------------------------
(* The file system the loader reads.  A file is its extension, the number  *)
(* of lines of its extracted text, and whether its extraction succeeds.    *)

SupportedExts == {".txt", ".pdf", ".docx", ".csv", ".json", ".md"}

Files ==
  [ p \in {"people.csv", "notes.xyz", "docs/a.csv", "docs/b.pdf",
           "mixed/a.csv", "mixed/b.pdf", "mixed/c.csv", "mixed/d.xyz",
           "kb/a.csv", "kb/e.json", "kb/f.md"} |->
      CASE p = "people.csv"  -> [ext |-> ".csv", lines |-> 600, readable |-> TRUE]
        [] p = "notes.xyz"   -> [ext |-> ".xyz", lines |-> 3,   readable |-> TRUE]
        [] p = "docs/a.csv"  -> [ext |-> ".csv", lines |-> 15,  readable |-> TRUE]
        [] p = "docs/b.pdf"  -> [ext |-> ".pdf", lines |-> 0,   readable |-> FALSE]
        [] p = "mixed/a.csv" -> [ext |-> ".csv", lines |-> 15,  readable |-> TRUE]
        [] p = "mixed/b.pdf" -> [ext |-> ".pdf", lines |-> 0,   readable |-> FALSE]
        [] p = "mixed/c.csv" -> [ext |-> ".csv", lines |-> 25,  readable |-> TRUE]
        [] p = "mixed/d.xyz" -> [ext |-> ".xyz", lines |-> 3,   readable |-> TRUE]
        [] p = "kb/a.csv"    -> [ext |-> ".csv", lines |-> 15,  readable |-> TRUE]
        [] p = "kb/e.json"   -> [ext |-> ".json", lines |-> 40, readable |-> TRUE]
        [] p = "kb/f.md"     -> [ext |-> ".md", lines |-> 8,    readable |-> TRUE] ]

\* the number of pieces RecursiveCharacterTextSplitter.splitText returns for
\* the text of a file that is not tabular
SplitPieces == [ p \in {"kb/e.json", "kb/f.md"} |-> IF p = "kb/e.json" THEN 3 ELSE 1 ]

\* fs.readdirSync order of the directories
DirEntries ==
  [ d \in {"docs", "mixed", "kb"} |->
      CASE d = "docs"  -> <<"docs/a.csv", "docs/b.pdf">>
        [] d = "mixed" -> <<"mixed/a.csv", "mixed/b.pdf", "mixed/d.xyz", "mixed/c.csv">>
        [] d = "kb"    -> <<"kb/e.json", "kb/a.csv", "kb/f.md">> ]

\* the descriptors a client passes to createDataSource
Descriptors ==
  { [type |-> "file",      path |-> "people.csv"],
    [type |-> "file",      path |-> "notes.xyz"],
    [type |-> "directory", path |-> "docs"],
    [type |-> "url",       path |-> ""] }

----------------------------------------------------------------------------
(* Map helpers *)

MapSet(m, k, v) == [x \in DOMAIN m \cup {k} |-> IF x = k THEN v ELSE m[x]]

MapDelete(m, k) == [x \in DOMAIN m \ {k} |-> m[x]]

----------------------------------------------------------------------------
(* Loader and chunker *)

\* loadFile: the file's text (its line count), or a throw
LoadFileThrows(p) == Files[p].ext \notin SupportedExts \/ ~Files[p].readable

\* loadDirectory: the files of the directory with a supported extension
RECURSIVE FilterSupported(_)
FilterSupported(fs) ==
  IF fs = <<>> THEN <<>>
  ELSE IF Files[Head(fs)].ext \in SupportedExts
       THEN <<Head(fs)>> \o FilterSupported(Tail(fs))
       ELSE FilterSupported(Tail(fs))

LoadDirectory(d) == FilterSupported(DirEntries[d])

\* the loop of loadDocuments over the files: a throw of loadFile leaves the
\* loop, is caught and logged, and the documents pushed so far are returned
RECURSIVE LoadFiles(_)
LoadFiles(fs) ==
  IF fs = <<>> THEN <<>>
  ELSE IF LoadFileThrows(Head(fs)) THEN <<>>
       ELSE <<Head(fs)>> \o LoadFiles(Tail(fs))

\* loadDocuments([sourceId]) for a source of descriptor d: the paths of the
\* documents produced
LoadDocuments(d) ==
  CASE d.type = "file"      -> IF d.path # "" THEN LoadFiles(<<d.path>>) ELSE <<>>
    [] d.type = "directory" -> IF d.path # "" THEN LoadFiles(LoadDirectory(d.path)) ELSE <<>>
    [] OTHER                -> <<>>

\* whether some loadFile of the run threw (swallowed by loadDocuments)
LoaderFailed(d) ==
  CASE d.type = "file"      -> d.path # "" /\ LoadFileThrows(d.path)
    [] d.type = "directory" -> d.path # "" /\ \E i \in 1..Len(LoadDirectory(d.path)) :
                                                 LoadFileThrows(LoadDirectory(d.path)[i])
    [] OTHER                -> FALSE

\* smartChunkDocument, .csv branch: for (i = 0; i < lines.length; i += 10)
CsvChunkCount(lines) == (lines + CsvChunkRows - 1) \div CsvChunkRows

\* the number of chunks smartChunkDocument makes of the document of file p
ChunkCount(p) ==
  IF Files[p].ext = ".csv" THEN CsvChunkCount(Files[p].lines)
  ELSE IF p \in DOMAIN SplitPieces THEN SplitPieces[p] ELSE 1

RECURSIVE ChunkDocuments(_)
ChunkDocuments(docs) ==
  IF docs = <<>> THEN 0
  ELSE ChunkCount(Head(docs)) + ChunkDocuments(Tail(docs))

----------------------------------------------------------------------------
(* Embedding batches *)

\* the batch start indices of generateEmbeddings: 0, 50, 100, ...
BatchStarts(chunks) == { i \in 0..chunks : i % batchSize = 0 /\ i < chunks }

\* chunks.slice(i, i + batchSize).length
BatchLen(chunks, i) == IF i + batchSize <= chunks THEN batchSize ELSE chunks - i

RECURSIVE SumBatches(_, _)
SumBatches(chunks, bs) ==
  IF bs = {} THEN 0
  ELSE LET b == CHOOSE x \in bs : TRUE
       IN  BatchLen(chunks, b) + SumBatches(chunks, bs \ {b})

----------------------------------------------------------------------------
(* Records *)

NoDesc == [type |-> "none", path |-> ""]

\* no updateRagDataSource call is pending
NoPend == [status |-> "none", documentCount |-> Undefined]

NewRunUnscheduled(s) ==
  [pc |-> "done", src |-> s, desc |-> NoDesc, stale |-> FALSE, vsStale |-> FALSE,
   replaced |-> FALSE, chunks |-> 0, i |-> 0, embedded |-> {}, pend |-> NoPend]

\* an invocation of autoProcessDataSource(s) waiting in setTimeout(..., 100);
\* replaced tells that the VectorStore object this invocation created
\* (lines 387-398) took the place of one holding vectors, of a
\* source with a recorded documentCount, and is still the Map's entry
NewRun(s) ==
  [pc |-> "timer", src |-> s, desc |-> NoDesc, stale |-> FALSE, vsStale |-> FALSE,
   replaced |-> FALSE, chunks |-> 0, i |-> 0, embedded |-> {}, pend |-> NoPend]

\* an invocation that has returned: its locals are dead
DoneRun(s) == [NewRun(s) EXCEPT !.pc = "done"]

InFlightPcs == {"load", "embed", "getcoll", "add", "dbwrite"}

InFlight(r) == runs[r].pc \in InFlightPcs

RunIds == 1..Len(runs)

\* const dataSource: DataSource = { id, ...data, status: 'configured', ... }
NewDataSource(d) == [desc |-> d, status |-> "configured", documentCount |-> Undefined]

\* const vectorStoreId = `datastore_${sourceId}`
VectorStoreId(s) == "datastore_" \o s

\* the VectorStore object autoProcessDataSource creates
NewVectorStore == [status |-> "ready", vectorCount |-> Undefined]

\* the local state of a retrieveContext call; no call has been made
NoCall ==
  [pc |-> "idle", query |-> "", vectorStoreId |-> "", status |-> "",
   failed |-> "none", pool |-> "", pattern |-> "", searched |-> FALSE,
   scanned |-> FALSE, usable |-> 0, contexts |-> <<>>]

\* no helper method has been applied
NoApplication == [op |-> "none"]

\* the services are up: no startup load is pending and no agent is known
NoBoot == [rag |-> "idle", agent |-> "idle", saved |-> <<>>, rows |-> <<>>,
           agents |-> <<>>, cursor |-> 0]

\* no MCP server is registered
NoMcp == [servers |-> <<>>, objects |-> <<>>, procs |-> <<>>, calls |-> {}]

----------------------------------------------------------------------------
Init ==
  /\ dataSources = <<>>
  /\ vectorStores = <<>>
  /\ collections = <<>>
  /\ db = <<>>
  /\ runs = <<>>
  /\ usedIds = {}
  /\ apiKey \in BOOLEAN
  /\ rc = NoCall
  /\ fn = NoApplication
  /\ boot = NoBoot
  /\ mcp = NoMcp

----------------------------------------------------------------------------
(* createDataSource: the row is written first; a failing write rethrows    *)
(* before the source is registered or a run is scheduled.                  *)

CreateDataSourceRegistersFirst(s, d, dbOk) ==
  /\ s \notin usedIds
  /\ Len(runs) < MaxRuns
  /\ usedIds' = usedIds \cup {s}
  /\ dataSources' = MapSet(dataSources, s, NewDataSource(d))
  /\ runs' = Append(runs, NewRun(s))
  /\ db' = IF dbOk
           THEN MapSet(db, s, [status |-> "configured", documentCount |-> Undefined])
           ELSE db
  /\ UNCHANGED <<vectorStores, collections, apiKey, rc, fn, boot, mcp>>

CreateDataSource(s, d, dbOk) ==
  /\ s \notin usedIds
  /\ Len(runs) < MaxRuns
  /\ usedIds' = usedIds \cup {s}
  /\ IF dbOk
     THEN /\ db' = MapSet(db, s, [status |-> "configured", documentCount |-> Undefined])
          /\ dataSources' = MapSet(dataSources, s, NewDataSource(d))
          /\ runs' = Append(runs, NewRun(s))
     ELSE UNCHANGED <<db, dataSources, runs>>
  /\ UNCHANGED <<vectorStores, collections, apiKey, rc, fn, boot, mcp>>

(* retryDataSourceProcessing *)

RetryDataSourceProcessing(s) ==
  /\ s \in DOMAIN dataSources
  /\ Len(runs) < MaxRuns
  /\ dataSources' = [dataSources EXCEPT ![s].status = "configured"]
  /\ runs' = Append(runs, NewRun(s))
  /\ UNCHANGED <<vectorStores, collections, db, usedIds, apiKey, rc, fn, boot, mcp>>

(* updateDataSource: { ...dataSource, ...updates } is a new object put in  *)
(* the Map; every run holding the old object now holds a stale reference.  *)

\* the request bodies PUT /datasources/:id is called with: a rename (none of
\* the modelled fields) or a body carrying a status
Updates == {[status |-> "same"], [status |-> "ready"], [status |-> "error"]}

Merge(ds, u) == IF u.status = "same" THEN ds ELSE [ds EXCEPT !.status = u.status]

Detach(s) ==
  [r \in RunIds |->
     IF runs[r].src = s /\ InFlight(r) THEN [runs[r] EXCEPT !.stale = TRUE] ELSE runs[r]]

UpdateDataSource(s, u) ==
  /\ s \in DOMAIN dataSources
  /\ dataSources' = [dataSources EXCEPT ![s] = Merge(dataSources[s], u)]
  /\ runs' = Detach(s)
  /\ UNCHANGED <<vectorStores, collections, db, usedIds, apiKey, rc, fn, boot, mcp>>

(* deleteDataSource: only the Map entry goes *)

DeleteDataSource(s) ==
  /\ s \in DOMAIN dataSources
  /\ dataSources' = MapDelete(dataSources, s)
  /\ runs' = Detach(s)
  /\ UNCHANGED <<vectorStores, collections, db, usedIds, apiKey, rc, fn, boot, mcp>>

----------------------------------------------------------------------------
(* autoProcessDataSource, cut at its awaits.  Each piece below gives the    *)
(* successor of the service state <<dataSources, vectorStores, runs[r]>>    *)
(* as a record [ds, vs, run]; the actions assign it.                        *)

St(ds, vs, run) == [ds |-> ds, vs |-> vs, run |-> run]

\* if (!source || source.status === 'ready') return
StartSkips(s) == s \notin DOMAIN dataSources \/ dataSources[s].status = "ready"

\* (mutant) the count is added to the count of the previous run
RealizedCountAccumulated(run) ==
  run.chunks + (IF run.src \in DOMAIN dataSources
                   /\ dataSources[run.src].documentCount # Undefined
                THEN dataSources[run.src].documentCount ELSE 0)

\* source.documentCount = chunks.length
RealizedCount(run) == run.chunks

\* this.vectorStores.set(vectorStoreId, vectorStore) of a starting run
\* overwrites the store an earlier run of the source filled
ReplacesFilledStore(s) ==
  /\ dataSources[s].documentCount # Undefined
  /\ VectorStoreId(s) \in DOMAIN vectorStores
  /\ vectorStores[VectorStoreId(s)].vectorCount > 0

\* the catch block: the source is looked up again in the Map, set to error,
\* and the row update is awaited
Catch(ds, vs, run) ==
  LET s == run.src IN
  IF s \in DOMAIN ds
  THEN St([ds EXCEPT ![s].status = "error"], vs,
          [DoneRun(s) EXCEPT !.pc = "dbwrite",
                             !.pend = [status |-> "error", documentCount |-> Undefined]])
  ELSE St(ds, vs, DoneRun(s))

\* storeEmbeddings up to its first await: the vector store must be in the
\* Map and ready, else 'Vector store not ready' is thrown
EnterStore(ds, vs, run) ==
  LET v == VectorStoreId(run.src) IN
  IF v \notin DOMAIN vs \/ vs[v].status # "ready"
  THEN Catch(ds, vs, run)
  ELSE St(ds, vs, [run EXCEPT !.pc = "getcoll", !.vsStale = FALSE])

\* generateEmbeddings up to its first await: nothing to embed returns [],
\* a missing API key throws in getEmbeddings()
EnterEmbed(ds, vs, run) ==
  IF run.chunks = 0 THEN EnterStore(ds, vs, run)
  ELSE IF ~apiKey THEN Catch(ds, vs, run)
  ELSE St(ds, vs, [run EXCEPT !.pc = "embed", !.i = 0])

\* the end of one batch of the for loop: the next batch, or the store
NextBatch(ds, vs, run) ==
  IF run.i + batchSize < run.chunks
  THEN St(ds, vs, [run EXCEPT !.pc = "embed", !.i = run.i + batchSize])
  ELSE EnterStore(ds, vs, run)

\* lines 414-427: the run's own reference to the source is written; the
\* write shows in the Map only while the Map still holds that object
MarkReady(ds, vs, run) ==
  LET s == run.src
      n == RealizedCount(run)
  IN  St(IF ~run.stale /\ s \in DOMAIN ds
         THEN [ds EXCEPT ![s].status = "ready", ![s].documentCount = n]
         ELSE ds,
         vs,
         [DoneRun(s) EXCEPT !.pc = "dbwrite",
                            !.pend = [status |-> "ready", documentCount |-> n]])

Assign(r, st) ==
  /\ dataSources' = st.ds
  /\ vectorStores' = st.vs
  /\ runs' = [runs EXCEPT ![r] = st.run]

\* the timer fires: status processing, a fresh VectorStore object replaces
\* the Map entry, loadDocuments starts reading
AutoProcessStart(r) ==
  /\ r \in RunIds
  /\ runs[r].pc = "timer"
  /\ LET s == runs[r].src IN
     IF StartSkips(s)
     THEN /\ runs' = [runs EXCEPT ![r] = DoneRun(s)]
          /\ UNCHANGED <<dataSources, vectorStores>>
     ELSE /\ dataSources' = [dataSources EXCEPT ![s].status = "processing"]
          /\ vectorStores' = MapSet(vectorStores, VectorStoreId(s), NewVectorStore)
          /\ runs' = [x \in RunIds |->
                        IF x = r
                        THEN [runs[r] EXCEPT !.pc = "load", !.replaced = ReplacesFilledStore(s),
                                             !.desc = dataSources[s].desc]
                        ELSE IF runs[x].src = s /\ runs[x].pc \in {"getcoll", "add"}
                             THEN [runs[x] EXCEPT !.vsStale = TRUE, !.replaced = FALSE]
                             ELSE IF runs[x].src = s
                                  THEN [runs[x] EXCEPT !.replaced = FALSE]
                                  ELSE runs[x]]
  /\ UNCHANGED <<collections, db, usedIds, apiKey, rc, fn, boot, mcp>>

\* loadDocuments and chunkDocuments return; generateEmbeddings starts
LoadDone(r) ==
  /\ r \in RunIds
  /\ runs[r].pc = "load"
  /\ LET run == [runs[r] EXCEPT !.chunks = ChunkDocuments(LoadDocuments(runs[r].desc))]
     IN  Assign(r, EnterEmbed(dataSources, vectorStores, run))
  /\ UNCHANGED <<collections, db, usedIds, apiKey, rc, fn, boot, mcp>>

\* the while loop of one batch: attempts 1..maxRetries are made until one
\* resolves; outcomes[k] tells whether attempt k resolves
BatchSucceeds(outcomes) == \E k \in 1..maxRetries : outcomes[k]

\* one iteration of the for loop of generateEmbeddings: the batch at
\* runs[r].i is attempted (with the backoff sleeps between the attempts, none
\* of which reads or writes the service's state); its records are pushed if
\* an attempt resolved, and the loop goes on in either case
EmbedBatch(r, outcomes) ==
  /\ r \in RunIds
  /\ runs[r].pc = "embed"
  /\ LET run == IF BatchSucceeds(outcomes)
                THEN [runs[r] EXCEPT !.embedded = runs[r].embedded \cup {runs[r].i}]
                ELSE runs[r]
     IN  Assign(r, NextBatch(dataSources, vectorStores, run))
  /\ UNCHANGED <<collections, db, usedIds, apiKey, rc, fn, boot, mcp>>

\* the records a run hands to collection.add: one per chunk of each embedded
\* batch, under ids uuidv4() made for this run's chunks
RunRecords(r, run) == { <<r, b>> : b \in run.embedded }

\* embeddings.length
EmbeddingCount(run) == SumBatches(run.chunks, run.embedded)

\* collection.add appends the records to what the collection holds
CollectionAfterAdd(old, new) == old \cup new

\* chromaClient.getOrCreateCollection resolves
GetCollectionOk(r) ==
  /\ r \in RunIds
  /\ runs[r].pc = "getcoll"
  /\ LET s == runs[r].src IN
     collections' = IF s \in DOMAIN collections THEN collections
                    ELSE MapSet(collections, s, {})
  /\ runs' = [runs EXCEPT ![r].pc = "add"]
  /\ UNCHANGED <<dataSources, vectorStores, db, usedIds, apiKey, rc, fn, boot, mcp>>

\* chromaClient.getOrCreateCollection or collection.add rejects:
\* storeEmbeddings rethrows, autoProcessDataSource catches
StoreFail(r) ==
  /\ r \in RunIds
  /\ runs[r].pc \in {"getcoll", "add"}
  /\ Assign(r, Catch(dataSources, vectorStores, runs[r]))
  /\ UNCHANGED <<collections, db, usedIds, apiKey, rc, fn, boot, mcp>>

\* collection.add resolves: vectorCount is set through the reference taken
\* at the start of storeEmbeddings, then the source is marked ready
AddOk(r) ==
  /\ r \in RunIds
  /\ runs[r].pc = "add"
  /\ LET s  == runs[r].src
         v  == VectorStoreId(s)
         vs == IF ~runs[r].vsStale /\ v \in DOMAIN vectorStores
               THEN [vectorStores EXCEPT ![v].vectorCount = EmbeddingCount(runs[r])]
               ELSE vectorStores
     IN  /\ collections' = [collections EXCEPT
                              ![s] = CollectionAfterAdd(@, RunRecords(r, runs[r]))]
         /\ Assign(r, MarkReady(dataSources, vs, runs[r]))
  /\ UNCHANGED <<db, usedIds, apiKey, rc, fn, boot, mcp>>

\* databaseService.updateRagDataSource settles; a rejection is only logged
DbWriteDone(r, ok) ==
  /\ r \in RunIds
  /\ runs[r].pc = "dbwrite"
  /\ LET s == runs[r].src
         w == runs[r].pend
     IN  db' = IF ok /\ s \in DOMAIN db
               THEN [db EXCEPT ![s] =
                       [status |-> w.status,
                        documentCount |-> IF w.status = "ready" THEN w.documentCount
                                          ELSE @.documentCount]]
               ELSE db
  /\ runs' = [runs EXCEPT ![r] = DoneRun(runs[r].src)]
  /\ UNCHANGED <<dataSources, vectorStores, collections, usedIds, apiKey, rc, fn, boot, mcp>>

----------------------------------------------------------------------------
RunStep(r) ==
  \/ AutoProcessStart(r)
  \/ LoadDone(r)
  \/ \E o \in [1..maxRetries -> BOOLEAN] : EmbedBatch(r, o)
  \/ GetCollectionOk(r)
  \/ StoreFail(r)
  \/ AddOk(r)
  \/ \E ok \in BOOLEAN : DbWriteDone(r, ok)

ClientStep ==
  \/ \E s \in SourceIds, d \in Descriptors, ok \in BOOLEAN : CreateDataSource(s, d, ok)
  \/ \E s \in SourceIds : RetryDataSourceProcessing(s)
  \/ \E s \in SourceIds, u \in Updates : UpdateDataSource(s, u)
  \/ \E s \in SourceIds : DeleteDataSource(s)

Next ==
  \/ ClientStep
  \/ \E r \in 1..MaxRuns : RunStep(r)

Spec == Init /\ [][Next]_vars

\* the awaits of a run are external calls that return or fail, and a timer
\* that fires: every scheduled or suspended run is eventually resumed
FairSpec == Spec /\ \A r \in 1..MaxRuns : WF_vars(RunStep(r))

----------------------------------------------------------------------------
(* Texts.  A string is the sequence of its characters. *)

UpperChars == <<"A","B","C","D","E","F","G","H","I","J","K","L","M",
                "N","O","P","Q","R","S","T","U","V","W","X","Y","Z">>

LowerChars == <<"a","b","c","d","e","f","g","h","i","j","k","l","m",
                "n","o","p","q","r","s","t","u","v","w","x","y","z">>

\* String.prototype.toLowerCase
toLowerCase(t) ==
  [k \in 1..Len(t) |->
     IF \E u \in 1..Len(UpperChars) : UpperChars[u] = t[k]
     THEN LowerChars[CHOOSE u \in 1..Len(UpperChars) : UpperChars[u] = t[k]]
     ELSE t[k]]

\* String.prototype.includes
includes(t, sub) ==
  \E k \in 0..(Len(t) - Len(sub)) : SubSeq(t, k + 1, k + Len(sub)) = sub

\* String.prototype.substring(0, n)
substring0(t, n) == SubSeq(t, 1, IF n < Len(t) THEN n ELSE Len(t))

QChin == <<"w", "h", "o", " ", "i", "s", " ", "s", "a", "r", "a", "h", " ", "c", "h", "i", "n">>
QChinLi == <<"C", "h", "i", "n", " ", "L", "i">>
QBudget == <<"b", "u", "d", "g", "e", "t", " ", "2", "0", "2", "4">>
QNone == <<"q", "u", "i", "z">>
TSarahChen == <<"S", "a", "r", "a", "h", " ", "C", "h", "e", "n", ",", " ", "E", "n", "g", "i", "n", "e", "e", "r">>
TLiWang == <<"L", "i", " ", "W", "a", "n", "g">>
TBudget == <<"B", "u", "d", "g", "e", "t", " ", "2", "0", "2", "4">>
TChenLi == <<"C", "h", "e", "n", " ", "L", "i">>
TLeeChan == <<"L", "e", "e", " ", "C", "h", "a", "n">>
TNotes == <<"n", "o", "t", "e", "s">>
TMemo == <<"m", "e", "m", "o">>
TAnaLopez == <<"A", "n", "a", " ", "L", "o", "p", "e", "z">>
QNot == <<"n", "o", "t">>
QAnaLopes == <<"a", "n", "a", " ", "l", "o", "p", "e", "s">>
QLopesChin == <<"l", "o", "p", "e", "s", " ", "c", "h", "i", "n">>

----------------------------------------------------------------------------
(* Fuzzy matcher *)

Min2(a, b) == IF a < b THEN a ELSE b

\* one row of the matrix: row[j + 1] = matrix[i][j]; prev is row i - 1 and
\* c is str2.charAt(i - 1).  The test on cell, which is always true, makes
\* the evaluator compute the cell before the next one
RECURSIVE LevRowNoDeletion(_, _, _, _)
LevRowNoDeletion(str1, c, prev, row) ==
  LET j    == Len(row)
      cell == IF c = str1[j]
              THEN prev[j]
              ELSE Min2(prev[j] + 1, row[j] + 1)
  IN  IF j > Len(str1) THEN row
      ELSE IF cell >= 0 THEN LevRowNoDeletion(str1, c, prev, Append(row, cell))
           ELSE row

RECURSIVE LevRow(_, _, _, _)
LevRow(str1, c, prev, row) ==
  LET j    == Len(row)
      cell == IF c = str1[j]
              THEN prev[j]
              ELSE Min2(prev[j] + 1, Min2(row[j] + 1, prev[j + 1] + 1))
  IN  IF j > Len(str1) THEN row
      ELSE IF cell >= 0 THEN LevRow(str1, c, prev, Append(row, cell))
           ELSE row

RECURSIVE LevRows(_, _, _, _)
LevRows(str1, str2, i, prev) ==
  LET row == LevRow(str1, str2[i], prev, <<i>>) IN
  IF i > Len(str2) THEN prev
  ELSE IF Len(row) > 0 THEN LevRows(str1, str2, i + 1, row)
       ELSE prev

\* levenshteinDistance(str1, str2) = matrix[str2.length][str1.length]
levenshteinDistance(str1, str2) ==
  LevRows(str1, str2, 1, [j \in 1..(Len(str1) + 1) |-> j - 1])[Len(str1) + 1]

\* the table nameReplacements, in the order of Object.entries
nameReplacements ==
  <<
     <<<<"c", "h", "e", "n">>, <<<<"c", "h", "i", "n">>, <<"c", "h", "a", "n">>, <<"c", "h", "e", "n", "g">>, <<"c", "h", "i", "n", "e">>>>>>,
     <<<<"z", "h", "a", "n", "g">>, <<<<"c", "h", "a", "n", "g">>, <<"z", "h", "a", "n", "g">>, <<"z", "h", "a", "n">>>>>>,
     <<<<"w", "a", "n", "g">>, <<<<"w", "a", "n", "g">>, <<"w", "o", "n", "g">>, <<"w", "a", "h", "n", "g">>>>>>,
     <<<<"l", "i">>, <<<<"l", "e", "e">>, <<"l", "i">>, <<"l", "y">>>>>>,
     <<<<"l", "i", "u">>, <<<<"l", "i", "u">>, <<"l", "e", "w">>, <<"l", "o", "o">>>>>>,
     <<<<"y", "a", "n", "g">>, <<<<"y", "a", "n", "g">>, <<"y", "o", "n", "g">>, <<"y", "a", "a", "n", "g">>>>>>,
     <<<<"h", "u", "a", "n", "g">>, <<<<"h", "u", "a", "n", "g">>, <<"h", "w", "a", "n", "g">>, <<"w", "a", "h", "n", "g">>>>>>,
     <<<<"z", "h", "o", "u">>, <<<<"z", "h", "o", "u">>, <<"j", "o", "e">>, <<"j", "o", "u">>>>>>,
     <<<<"w", "u">>, <<<<"w", "u">>, <<"w", "o", "o">>, <<"w", "o", "o">>>>>>,
     <<<<"x", "u">>, <<<<"x", "u">>, <<"s", "h", "u">>, <<"s", "u">>>>>>,
     <<<<"s", "u", "n">>, <<<<"s", "u", "n">>, <<"s", "o", "o", "n">>, <<"s", "o", "n">>>>>>,
     <<<<"m", "a">>, <<<<"m", "a">>, <<"m", "a", "h">>, <<"m", "a", "r">>>>>>,
     <<<<"h", "u">>, <<<<"h", "u">>, <<"w", "h", "o">>, <<"h", "o", "o">>>>>>,
     <<<<"g", "u", "o">>, <<<<"g", "u", "o">>, <<"g", "o", "o">>, <<"g", "w", "o">>>>>>,
     <<<<"l", "i", "n">>, <<<<"l", "i", "n">>, <<"l", "y", "n", "n">>, <<"l", "e", "e", "n">>>>>>,
     <<<<"h", "e">>, <<<<"h", "e">>, <<"h", "e", "r">>, <<"h", "e", "e">>>>>>,
     <<<<"g", "a", "o">>, <<<<"g", "a", "o">>, <<"g", "o", "w">>, <<"g", "a", "u">>>>>>,
     <<<<"z", "h", "e", "n", "g">>, <<<<"z", "h", "e", "n", "g">>, <<"j", "u", "n", "g">>, <<"j", "u", "n", "g">>>>>>,
     <<<<"s", "h", "i">>, <<<<"s", "h", "i">>, <<"s", "h", "e">>, <<"s", "h", "e", "e">>>>>>,
     <<<<"p", "e", "r", "e", "z">>, <<<<"p", "e", "r", "e", "z">>, <<"p", "e", "r", "e", "s">>, <<"p", "e", "r", "e", "z">>>>>>,
     <<<<"g", "a", "r", "c", "i", "a">>, <<<<"g", "a", "r", "c", "i", "a">>, <<"g", "a", "r", "s", "h", "a">>, <<"g", "a", "r", "c", "i", "a">>>>>>,
     <<<<"r", "o", "d", "r", "i", "g", "u", "e", "z">>, <<<<"r", "o", "d", "r", "i", "g", "u", "e", "z">>, <<"r", "o", "d", "r", "i", "q", "u", "e", "s">>, <<"r", "o", "d", "r", "i", "g", "e", "s">>>>>>,
     <<<<"g", "o", "n", "z", "a", "l", "e", "z">>, <<<<"g", "o", "n", "z", "a", "l", "e", "z">>, <<"g", "o", "n", "z", "a", "l", "e", "s">>, <<"g", "o", "n", "z", "a", "l", "e", "z">>>>>>,
     <<<<"l", "o", "p", "e", "z">>, <<<<"l", "o", "p", "e", "z">>, <<"l", "o", "p", "e", "s">>, <<"l", "o", "p", "e", "z">>>>>>,
     <<<<"m", "a", "r", "t", "i", "n", "e", "z">>, <<<<"m", "a", "r", "t", "i", "n", "e", "z">>, <<"m", "a", "r", "t", "i", "n", "e", "s">>, <<"m", "a", "r", "t", "i", "n", "e", "z">>>>>>,
     <<<<"s", "a", "n", "c", "h", "e", "z">>, <<<<"s", "a", "n", "c", "h", "e", "z">>, <<"s", "a", "n", "c", "h", "e", "s">>, <<"s", "a", "n", "c", "h", "e", "z">>>>>>,
     <<<<"r", "a", "m", "i", "r", "e", "z">>, <<<<"r", "a", "m", "i", "r", "e", "z">>, <<"r", "a", "m", "i", "r", "e", "s">>, <<"r", "a", "m", "i", "r", "e", "z">>>>>>,
     <<<<"t", "o", "r", "r", "e", "s">>, <<<<"t", "o", "r", "r", "e", "s">>, <<"t", "o", "r", "e", "s">>, <<"t", "o", "r", "r", "e", "s">>>>>>,
     <<<<"f", "l", "o", "r", "e", "s">>, <<<<"f", "l", "o", "r", "e", "s">>, <<"f", "l", "o", "r", "e", "s", "s">>, <<"f", "l", "o", "r", "e", "s">>>>>>,
     <<<<"r", "i", "v", "e", "r", "a">>, <<<<"r", "i", "v", "e", "r", "a">>, <<"r", "i", "v", "i", "e", "r", "a">>, <<"r", "i", "v", "e", "r", "a">>>>>>,
     <<<<"g", "o", "m", "e", "z">>, <<<<"g", "o", "m", "e", "z">>, <<"g", "o", "m", "e", "s">>, <<"g", "o", "m", "e", "z">>>>>>,
     <<<<"d", "i", "a", "z">>, <<<<"d", "i", "a", "z">>, <<"d", "i", "a", "s">>, <<"d", "i", "a", "z">>>>>>,
     <<<<"m", "o", "r", "a", "l", "e", "s">>, <<<<"m", "o", "r", "a", "l", "e", "s">>, <<"m", "o", "r", "a", "l", "e", "z">>, <<"m", "o", "r", "a", "l", "e", "s">>>>>>,
     <<<<"o", "r", "t", "i", "z">>, <<<<"o", "r", "t", "i", "z">>, <<"o", "r", "t", "i", "s">>, <<"o", "r", "t", "i", "z">>>>>>,
     <<<<"g", "u", "t", "i", "e", "r", "r", "e", "z">>, <<<<"g", "u", "t", "i", "e", "r", "r", "e", "z">>, <<"g", "u", "t", "i", "e", "r", "e", "s">>, <<"g", "u", "t", "i", "e", "r", "r", "e", "z">>>>>>,
     <<<<"c", "h", "a", "v", "e", "z">>, <<<<"c", "h", "a", "v", "e", "z">>, <<"c", "h", "a", "v", "e", "s">>, <<"c", "h", "a", "v", "e", "z">>>>>>,
     <<<<"r", "a", "m", "o", "s">>, <<<<"r", "a", "m", "o", "s">>, <<"r", "a", "m", "o", "s", "s">>, <<"r", "a", "m", "o", "s">>>>>>,
     <<<<"h", "e", "r", "n", "a", "n", "d", "e", "z">>, <<<<"h", "e", "r", "n", "a", "n", "d", "e", "z">>, <<"e", "r", "n", "a", "n", "d", "e", "z">>, <<"h", "e", "r", "n", "a", "n", "d", "e", "z">>>>>>,
     <<<<"j", "i", "m", "e", "n", "e", "z">>, <<<<"j", "i", "m", "e", "n", "e", "z">>, <<"j", "i", "m", "i", "n", "e", "s">>, <<"j", "i", "m", "e", "n", "e", "z">>>>>>,
     <<<<"m", "e", "n", "d", "o", "z", "a">>, <<<<"m", "e", "n", "d", "o", "z", "a">>, <<"m", "e", "n", "d", "o", "s", "a">>, <<"m", "e", "n", "d", "o", "z", "a">>>>>>,
     <<<<"r", "u", "i", "z">>, <<<<"r", "u", "i", "z">>, <<"r", "u", "e", "z">>, <<"r", "u", "i", "z">>>>>>,
     <<<<"a", "g", "u", "i", "l", "a", "r">>, <<<<"a", "g", "u", "i", "l", "a", "r">>, <<"a", "g", "u", "i", "l", "l", "a", "r">>, <<"a", "g", "u", "i", "l", "a", "r">>>>>>,
     <<<<"m", "e", "d", "i", "n", "a">>, <<<<"m", "e", "d", "i", "n", "a">>, <<"m", "e", "d", "i", "n", "a", "h">>, <<"m", "e", "d", "i", "n", "a">>>>>>,
     <<<<"c", "a", "s", "t", "i", "l", "l", "o">>, <<<<"c", "a", "s", "t", "i", "l", "l", "o">>, <<"c", "a", "s", "t", "i", "l", "o", "o">>, <<"c", "a", "s", "t", "i", "l", "l", "o">>>>>>,
     <<<<"s", "a", "n", "t", "i", "a", "g", "o">>, <<<<"s", "a", "n", "t", "i", "a", "g", "o">>, <<"s", "a", "n", "t", "i", "a", "n", "g", "o">>, <<"s", "a", "n", "t", "i", "a", "g", "o">>>>>>
  >>

\* a score 1 - distance / maxLength is the fraction num / den; den = 0 is
\* the NaN of 0 / 0, which compares false with everything
Score(distance, maxLength) == [num |-> maxLength - distance, den |-> maxLength]

Frac(n, d) == [num |-> n, den |-> d]

Greater(a, b) == a.den > 0 /\ b.den > 0 /\ a.num * b.den > b.num * a.den

\* allVariants = [correct, ...variations] of entry e
allVariants(e) == <<nameReplacements[e][1]>> \o nameReplacements[e][2]

\* the iterations <<e, v, c>> of the three nested loops: entry e, variant
\* allVariants[v] looked up in the query, correctVariant allVariants[c]
\* looked up in the document
Iterations ==
  UNION { {e} \X (1..Len(allVariants(e))) \X (1..Len(allVariants(e))) :
            e \in 1..Len(nameReplacements) }

\* loop order of two iterations
Before(x, y) ==
  \/ x[1] < y[1]
  \/ x[1] = y[1] /\ x[2] < y[2]
  \/ x[1] = y[1] /\ x[2] = y[2] /\ x[3] < y[3]

\* 1 - levenshteinDistance(a, b) / Math.max(a.length, b.length)
PairScore(a, b) ==
  Score(levenshteinDistance(a, b), IF Len(a) > Len(b) THEN Len(a) ELSE Len(b))

\* the score of iteration x, of variant against correctVariant
VariantScore(x) ==
  PairScore(allVariants(x[1])[x[2]], allVariants(x[1])[x[3]])

\* the iterations that reach the assignment bestScore = score but for the
\* test against bestScore, each with its score
Scoring(queryLower, docLower) ==
  LET reached == { x \in Iterations :
                     /\ includes(queryLower, allVariants(x[1])[x[2]])
                     /\ includes(docLower, allVariants(x[1])[x[3]]) }
  IN  { s \in { <<x, VariantScore(x)>> : x \in reached } :
          Greater(s[2], Frac(6, 10)) }

\* bestScore after the loops: it starts at 0 and is replaced only by a
\* greater score, so it ends as the score of the first iteration, in loop
\* order, that reaches the greatest score
BestScore(scoring) ==
  IF scoring = {} THEN Frac(0, 1)
  ELSE (CHOOSE s \in scoring :
          \A u \in scoring :
            /\ ~Greater(u[2], s[2])
            /\ Greater(s[2], u[2]) \/ s = u \/ Before(s[1], u[1]))[2]

RaisedAnyScore(bestScore, fuzzyScore) ==
  IF Greater(fuzzyScore, bestScore) THEN fuzzyScore ELSE bestScore

\* if (fuzzyScore > 0.7) bestScore = Math.max(bestScore, fuzzyScore)
Raised(bestScore, fuzzyScore) ==
  IF Greater(fuzzyScore, Frac(7, 10)) /\ Greater(fuzzyScore, bestScore)
  THEN fuzzyScore ELSE bestScore

\* the score of one document, docLower: the best name score, raised to the
\* score of the whole query against the first 100 characters
DocScore(queryLower, docLower) ==
  Raised(BestScore(Scoring(queryLower, docLower)),
         PairScore(queryLower, substring0(docLower, 100)))

\* the score of every document
DocScores(queryLower, documents) ==
  [k \in 1..Len(documents) |-> DocScore(queryLower, toLowerCase(documents[k]))]

\* documents.forEach: the matches, in document order, of score above 0.5;
\* index is the position in documents, counted from 0
CollectMatches(documents, scores) ==
  LET hits   == { k \in 1..Len(documents) : Greater(scores[k], Frac(5, 10)) }
      Hit(n) == CHOOSE k \in hits : Cardinality({ h \in hits : h < k }) = n - 1
  IN  [n \in 1..Cardinality(hits) |->
         [doc |-> documents[Hit(n)], score |-> scores[Hit(n)], index |-> Hit(n) - 1]]

SortMatchesNot(matches) == matches

\* Array.prototype.sort((a, b) => b.score - a.score), which is stable: a
\* match comes behind the matches of greater score and behind the earlier
\* matches of equal score
SortMatches(matches) ==
  LET Ahead(i) == { j \in 1..Len(matches) :
                      \/ Greater(matches[j].score, matches[i].score)
                      \/ ~Greater(matches[i].score, matches[j].score) /\ j < i }
  IN  [n \in 1..Len(matches) |->
         matches[CHOOSE i \in 1..Len(matches) : Cardinality(Ahead(i)) = n - 1]]

findPotentialNameMatches(query, documents) ==
  SortMatches(CollectMatches(documents, DocScores(toLowerCase(query), documents)))

----------------------------------------------------------------------------
(* The vector database as retrieveContext sees it.  A record of a          *)
(* collection is its document (a string or null) and its metadata (an      *)
(* object or null; a field that is missing is the empty string).           *)

nResults == 5

scanLimit == 100

topMatches == 3

\* the distance limit 0.8 and the distances, in hundredths
DistanceLimit == 80

\* the distance null, and the distance of a response without distances
DistNull == -1

DistUndefined == -2

NoDoc == [isString |-> FALSE, text |-> <<>>]

Doc(text) == [isString |-> TRUE, text |-> text]

NoMeta == [isNull |-> TRUE, source |-> "", dataSourceId |-> ""]

Meta(source, dataSourceId) ==
  [isNull |-> FALSE, source |-> source, dataSourceId |-> dataSourceId]

Record(doc, meta) == [doc |-> doc, meta |-> meta]

PoolNames == {"empty", "people", "image", "orphan", "team", "big"}

\* the records of the collection, in the order collection.get returns them
Pool(name) ==
  CASE name = "people" ->
         <<Record(Doc(TSarahChen), Meta("people.csv", "s1")),
           Record(Doc(TLiWang), Meta("", "")),
           Record(Doc(TBudget), NoMeta)>>
    [] name = "image" ->
         <<Record(NoDoc, Meta("scan.png", "s2")),
           Record(Doc(TSarahChen), Meta("people.csv", "s1")),
           Record(Doc(TLiWang), Meta("team.csv", "s1"))>>
    [] name = "orphan" ->
         <<Record(NoDoc, NoMeta),
           Record(Doc(TSarahChen), Meta("people.csv", "s1"))>>
    [] name = "team" ->
         <<Record(Doc(TSarahChen), Meta("people.csv", "s1")),
           Record(Doc(TChenLi), Meta("team.csv", "s1")),
           Record(Doc(TLiWang), Meta("staff.csv", "s1")),
           Record(Doc(TLeeChan), Meta("alumni.csv", "s2")),
           Record(Doc(TNotes), Meta("notes.txt", "s2")),
           Record(Doc(TMemo), Meta("memo.txt", "s2"))>>
    [] name = "big" ->
         [k \in 1..(scanLimit + 1) |->
            IF k <= scanLimit
            THEN Record(Doc(TNotes), Meta("notes.txt", "s2"))
            ELSE Record(Doc(TSarahChen), Meta("people.csv", "s1"))]
    [] OTHER -> <<>>

Queries == {"chin", "chinli", "budget", "none"}

QueryText(name) ==
  CASE name = "chin"   -> QChin
    [] name = "chinli" -> QChinLi
    [] name = "budget" -> QBudget
    [] OTHER           -> QNone

\* the shapes of a response of collection.query: the distances of its
\* results by rank, or a response without the documents array
Patterns == {"near", "edge", "far", "null", "absent", "nodocs"}

Distance(pattern, k) ==
  CASE pattern = "near" -> 10 * k
    [] pattern = "edge" -> <<30, 79, 80, 95, 120>>[k]
    [] pattern = "far"  -> 70 + 10 * k
    [] pattern = "null" -> DistNull
    [] OTHER            -> DistUndefined

\* collection.query({ nResults: 5, include: documents, metadatas, distances })
QueryResult(pool, pattern) ==
  [present |-> pattern # "nodocs",
   records |-> [k \in 1..Min2(nResults, Len(pool)) |->
                  [doc |-> pool[k].doc, meta |-> pool[k].meta,
                   distance |-> Distance(pattern, k)]]]

\* collection.get({ limit: 100, include: documents, metadatas })
GetResult(pool) == SubSeq(pool, 1, Min2(scanLimit, Len(pool)))

----------------------------------------------------------------------------
(* retrieveContext *)

\* { content, source: String(metadata.source || 'Unknown source'),
\*   dataSourceId: String(metadata.dataSourceId || vectorStoreId) }
Context(content, metadata, vectorStoreId) ==
  [content      |-> content,
   source       |-> IF metadata.source # "" THEN metadata.source
                    ELSE "Unknown source",
   dataSourceId |-> IF metadata.dataSourceId # "" THEN metadata.dataSourceId
                    ELSE vectorStoreId]

\* typeof doc === 'string' && metadata && (distance === null || distance < 0.8)
Usable(r) ==
  /\ r.doc.isString
  /\ ~r.meta.isNull
  /\ \/ r.distance = DistNull
     \/ r.distance # DistUndefined /\ r.distance < DistanceLimit

\* the loop over semanticResults.documents[0]
SemanticContexts(result, vectorStoreId) ==
  IF ~result.present THEN <<>>
  ELSE LET kept == SelectSeq(result.records, Usable)
       IN  [k \in 1..Len(kept) |->
              Context(kept[k].doc.text, kept[k].meta, vectorStoreId)]

IsString(r) == r.doc.isString

\* allDocs.documents.filter((d) => typeof d === 'string')
DocStrings(allDocs) ==
  [k \in 1..Len(SelectSeq(allDocs, IsString)) |->
     SelectSeq(allDocs, IsString)[k].doc.text]

\* fuzzyMatches.slice(0, 3)
Top(fuzzyMatches) == SubSeq(fuzzyMatches, 1, Min2(topMatches, Len(fuzzyMatches)))

\* the loop over the top matches: the metadata of a match is read at
\* allDocs.metadatas[match.index], match.index being a position in docStrings
MatchContexts(top, allDocs, vectorStoreId) ==
  LET HasMetadata(match) == ~allDocs[match.index + 1].meta.isNull
      kept               == SelectSeq(top, HasMetadata)
  IN  [k \in 1..Len(kept) |->
         Context(kept[k].doc, allDocs[kept[k].index + 1].meta, vectorStoreId)]

\* the fuzzy path on the scanned records allDocs
FuzzyContexts(query, allDocs, vectorStoreId) ==
  MatchContexts(Top(findPotentialNameMatches(query, DocStrings(allDocs))),
                allDocs, vectorStoreId)

NeedsFuzzyAlways(contexts) == TRUE

\* if (contexts.length === 0)
NeedsFuzzy(contexts) == Len(contexts) = 0

CaughtRethrown(call, at) ==
  [call EXCEPT !.pc = "threw", !.failed = at, !.contexts = <<>>]

\* catch (error) { console.error(...); return [] }
Caught(call, at) ==
  [call EXCEPT !.pc = "returned", !.failed = at, !.contexts = <<>>]

\* the call up to its first await: the check of the vector store
RetrieveContext(query, vectorStoreId) ==
  /\ rc.pc \in {"idle", "returned", "threw"}
  /\ LET known == vectorStoreId \in DOMAIN vectorStores
         call  == [NoCall EXCEPT !.query = query,
                                 !.vectorStoreId = vectorStoreId,
                                 !.status = IF known
                                            THEN vectorStores[vectorStoreId].status
                                            ELSE "absent"]
     IN  rc' = IF ~known \/ vectorStores[vectorStoreId].status # "ready"
               THEN [call EXCEPT !.pc = "returned"]
               ELSE [call EXCEPT !.pc = "getCollection"]
  /\ UNCHANGED <<lifecycleVars, fn, boot, mcp>>

\* await chromaClient.getCollection: it throws, or gives the collection
RetrieveGetCollection(ok, pool) ==
  /\ rc.pc = "getCollection"
  /\ rc' = IF ok THEN [rc EXCEPT !.pc = "count", !.pool = pool]
           ELSE Caught(rc, "getCollection")
  /\ UNCHANGED <<lifecycleVars, fn, boot, mcp>>

\* await collection.count(), then getEmbeddings(), which throws without key
RetrieveCount(ok) ==
  /\ rc.pc = "count"
  /\ rc' = IF ~ok THEN Caught(rc, "count")
           ELSE IF ~apiKey THEN Caught(rc, "getEmbeddings")
           ELSE [rc EXCEPT !.pc = "embedQuery"]
  /\ UNCHANGED <<lifecycleVars, fn, boot, mcp>>

\* await embeddings.embedQuery(query)
RetrieveEmbedQuery(ok) ==
  /\ rc.pc = "embedQuery"
  /\ rc' = IF ok THEN [rc EXCEPT !.pc = "query"] ELSE Caught(rc, "embedQuery")
  /\ UNCHANGED <<lifecycleVars, fn, boot, mcp>>

\* await collection.query, then the semantic filter and the test for the
\* fuzzy path
RetrieveQuery(ok, pattern) ==
  /\ rc.pc = "query"
  /\ rc' = IF ~ok THEN Caught(rc, "query")
           ELSE LET contexts == SemanticContexts(QueryResult(Pool(rc.pool), pattern),
                                                 rc.vectorStoreId)
                    call     == [rc EXCEPT !.pattern = pattern, !.searched = TRUE,
                                           !.usable = Len(contexts),
                                           !.contexts = contexts]
                IN  IF NeedsFuzzy(contexts)
                    THEN [call EXCEPT !.pc = "get"]
                    ELSE [call EXCEPT !.pc = "returned"]
  /\ UNCHANGED <<lifecycleVars, fn, boot, mcp>>

\* await collection.get, then the fuzzy matcher and the return
RetrieveGet(ok) ==
  /\ rc.pc = "get"
  /\ LET call == [rc EXCEPT !.scanned = TRUE] IN
     rc' = IF ~ok THEN Caught(call, "get")
           ELSE [call EXCEPT
                   !.pc = "returned",
                   !.contexts = rc.contexts \o
                                FuzzyContexts(QueryText(rc.query),
                                              GetResult(Pool(rc.pool)),
                                              rc.vectorStoreId)]
  /\ UNCHANGED <<lifecycleVars, fn, boot, mcp>>

----------------------------------------------------------------------------
(* Vector stores managed by the client *)

VectorStoreIds == {"v1"}

\* an id that no vector store has
UnknownStoreId == "v0"

createVectorStore(id) ==
  /\ id \notin usedIds
  /\ usedIds' = usedIds \cup {id}
  /\ vectorStores' = MapSet(vectorStores, id,
                            [status |-> "configured", vectorCount |-> Undefined])
  /\ UNCHANGED <<dataSources, collections, db, runs, apiKey, rc, fn, boot, mcp>>

VectorStoreUpdates == {[status |-> "configured"], [status |-> "ready"], [status |-> "error"]}

updateVectorStore(id, updates) ==
  /\ id \in DOMAIN vectorStores
  /\ vectorStores' = MapSet(vectorStores, id,
                            [vectorStores[id] EXCEPT !.status = updates.status])
  /\ UNCHANGED <<dataSources, collections, db, runs, usedIds, apiKey, rc, fn, boot, mcp>>

deleteVectorStore(id) ==
  /\ id \in DOMAIN vectorStores
  /\ vectorStores' = MapDelete(vectorStores, id)
  /\ UNCHANGED <<dataSources, collections, db, runs, usedIds, apiKey, rc, fn, boot, mcp>>

RetrieveStep ==
  \/ \E q \in Queries, v \in VectorStoreIds \cup {UnknownStoreId} : RetrieveContext(q, v)
  \/ \E ok \in BOOLEAN, pool \in PoolNames : RetrieveGetCollection(ok, pool)
  \/ \E ok \in BOOLEAN : RetrieveCount(ok)
  \/ \E ok \in BOOLEAN : RetrieveEmbedQuery(ok)
  \/ \E ok \in BOOLEAN, pattern \in Patterns : RetrieveQuery(ok, pattern)
  \/ \E ok \in BOOLEAN : RetrieveGet(ok)

VectorStoreStep ==
  \/ \E id \in VectorStoreIds : createVectorStore(id)
  \/ \E id \in VectorStoreIds, u \in VectorStoreUpdates : updateVectorStore(id, u)
  \/ \E id \in VectorStoreIds : deleteVectorStore(id)

NextRetrieve == VectorStoreStep \/ RetrieveStep

SpecRetrieve == Init /\ [][NextRetrieve]_vars

----------------------------------------------------------------------------
(* The helper methods applied on their own: the initial state holds the    *)
(* arguments, of bounded size, and the action of the method records its    *)
(* result in fn.                                                           *)

MaxLen == 3

Alphabet == {"a", "b", "c"}

\* the strings over Alphabet of length at most n
Strings(n) == UNION { [1..k -> Alphabet] : k \in 0..n }

\* an application that has not been evaluated yet
Pending(op, args) == [op |-> op, args |-> args, done |-> FALSE, result |-> 0]

LevenshteinInputs ==
  { Pending("levenshteinDistance", [str1 |-> str1, str2 |-> str2]) :
      str1 \in Strings(MaxLen), str2 \in Strings(MaxLen) }

MaxDocs == 3

\* the queries and the documents the matcher is applied to; the empty string
\* is among both
MatcherQueries == {QChin, QChinLi, QLopesChin, QBudget, QNot, QAnaLopes, <<>>}

MatcherTexts == {TSarahChen, TChenLi, TAnaLopez, TBudget, TNotes, <<>>}

MatcherInputs ==
  { Pending("findPotentialNameMatches", [query |-> query, documents |-> documents]) :
      query \in MatcherQueries,
      documents \in UNION { [1..k -> MatcherTexts] : k \in 0..MaxDocs } }

ApplyFindPotentialNameMatches ==
  /\ fn.op = "findPotentialNameMatches" /\ ~fn.done
  /\ fn' = [fn EXCEPT !.done = TRUE,
                      !.result = findPotentialNameMatches(fn.args.query,
                                                          fn.args.documents)]
  /\ UNCHANGED <<lifecycleVars, rc, boot, mcp>>

\* ---- generateEmbeddings (lines 757-805) ----
MaxBatches == 3

\* chunk lists are given by their length; chunk k is the k-th of the list
ChunkCounts ==
  {0} \cup { b * batchSize - k : b \in 1..MaxBatches, k \in {0, 30} }

\* outcome of embedDocuments for each batch and each attempt
EmbedOutcomes == [1..MaxBatches -> [1..maxRetries -> BOOLEAN]]

\* chunks.slice(i, i + batchSize), pushed one by one in order
Batch(chunks, i) == [ j \in 1..BatchLen(chunks, i) |-> i + j ]

\* while (retryCount < maxRetries && !success): try embedDocuments,
\* success = true, or catch and retryCount++
\* calls counts the embedDocuments calls made, sleeps lists the backoff
\* timeouts in milliseconds: Math.pow(2, retryCount) * 1000, slept only
\* if (retryCount < maxRetries)
RECURSIVE RetryLoop(_, _, _, _, _)
RetryLoop(outcome, retryCount, success, calls, sleeps) ==
  IF retryCount < maxRetries /\ ~success
  THEN IF outcome[retryCount + 1]
       THEN RetryLoop(outcome, retryCount, TRUE, calls + 1, sleeps)
       ELSE RetryLoop(outcome, retryCount + 1, FALSE, calls + 1,
                      IF retryCount + 1 < maxRetries
                      THEN Append(sleeps, (2 ^ (retryCount + 1)) * 1000)
                      ELSE sleeps)
  ELSE [success |-> success, retryCount |-> retryCount,
        calls |-> calls, sleeps |-> sleeps]

NextBatchStartAborting(chunks, i, success) ==
  IF success THEN i + batchSize ELSE chunks

\* i += batchSize, whether the batch succeeded or exhausted its attempts
NextBatchStart(chunks, i, success) == i + batchSize

\* for (let i = 0; i < chunks.length; i += batchSize)
RECURSIVE BatchLoop(_, _, _, _, _, _)
BatchLoop(chunks, outcomes, i, results, attempted, retries) ==
  IF i < chunks
  THEN LET w == RetryLoop(outcomes[(i \div batchSize) + 1], 0, FALSE, 0, <<>>)
       IN  BatchLoop(chunks, outcomes, NextBatchStart(chunks, i, w.success),
                     IF w.success THEN results \o Batch(chunks, i) ELSE results,
                     Append(attempted, i), Append(retries, w))
  ELSE [results |-> results, attempted |-> attempted, retries |-> retries]

generateEmbeddings(chunks, outcomes) ==
  IF chunks = 0 THEN [results |-> <<>>, attempted |-> <<>>, retries |-> <<>>]
  ELSE BatchLoop(chunks, outcomes, 0, <<>>, <<>>, <<>>)

EmbeddingInputs ==
  { Pending("generateEmbeddings", [chunks |-> n, outcomes |-> o]) :
      n \in ChunkCounts, o \in EmbedOutcomes }

ApplyGenerateEmbeddings ==
  /\ fn.op = "generateEmbeddings" /\ ~fn.done
  /\ fn' = [fn EXCEPT !.done = TRUE,
                      !.result = generateEmbeddings(fn.args.chunks, fn.args.outcomes)]
  /\ UNCHANGED <<lifecycleVars, rc, boot, mcp>>

\* ---- smartChunkDocument, .csv branch (lines 696-713) ----
MaxText == 11

NewLine == "\n"

\* String.prototype.split('\n'): the pieces between the line feeds
split(content) ==
  LET feeds   == { p \in 1..Len(content) : content[p] = NewLine }
      Feed(n) == IF n = 0 THEN 0
                 ELSE IF n > Cardinality(feeds) THEN Len(content) + 1
                 ELSE CHOOSE p \in feeds : Cardinality({ q \in feeds : q < p }) = n - 1
  IN  [n \in 1..(Cardinality(feeds) + 1) |->
         SubSeq(content, Feed(n - 1) + 1, Feed(n) - 1)]

\* Array.prototype.join('\n')
RECURSIVE join(_)
join(pieces) ==
  IF pieces = <<>> THEN <<>>
  ELSE IF Len(pieces) = 1 THEN pieces[1]
  ELSE pieces[1] \o <<NewLine>> \o join(Tail(pieces))

sliceShort(lines, i) ==
  SubSeq(lines, i + 1, Min2(i + CsvChunkRows - 1, Len(lines)))

\* lines.slice(i, i + chunkSize)
slice(lines, i) == SubSeq(lines, i + 1, Min2(i + CsvChunkRows, Len(lines)))

\* the chunks pushed by the loop for (i = 0; i < lines.length; i += chunkSize)
CsvChunks(lines) ==
  [k \in 1..CsvChunkCount(Len(lines)) |->
     [content  |-> join(slice(lines, (k - 1) * CsvChunkRows)),
      startRow |-> (k - 1) * CsvChunkRows,
      endRow   |-> Min2((k - 1) * CsvChunkRows + CsvChunkRows - 1, Len(lines) - 1)]]

smartChunkCsv(content) == CsvChunks(split(content))

\* texts of n one-character rows
Rows(n) == [p \in 1..(2 * n - 1) |-> IF p % 2 = 0 THEN NewLine ELSE "r"]

\* every text of a and line feed up to MaxText characters, and texts of 20,
\* 21 and 30 rows
CsvTexts ==
  UNION { [1..n -> {"a", NewLine}] : n \in 0..MaxText }
  \cup { Rows(n) : n \in {20, 21, 30} }

ChunkerInputs ==
  { Pending("smartChunkDocument", [content |-> c, ext |-> ".csv"]) : c \in CsvTexts }

ApplySmartChunkDocument ==
  /\ fn.op = "smartChunkDocument" /\ ~fn.done
  /\ fn' = [fn EXCEPT !.done = TRUE, !.result = smartChunkCsv(fn.args.content)]
  /\ UNCHANGED <<lifecycleVars, rc, boot, mcp>>

\* ---- the records of a run: loadDocuments, chunkDocuments, ----
\* ---- generateEmbeddings, storeEmbeddings (lines 402-412)   ----

\* documents.push({ id: uuidv4(), content, metadata: { source, dataSourceId,
\* type: 'file' } }): the id is the position of the document in the run
Documents(dataSourceId, d) ==
  [k \in 1..Len(LoadDocuments(d)) |->
     [id |-> <<"doc", k>>,
      metadata |-> [source |-> LoadDocuments(d)[k],
                    dataSourceId |-> dataSourceId,
                    type |-> "file"]]]

chunkTypeText(ext) == "text_paragraphs"

\* the chunkType of the branch taken for path.extname(doc.metadata.source)
chunkType(ext) ==
  CASE ext = ".csv"  -> "csv_rows"
    [] ext = ".json" -> "json_properties"
    [] OTHER         -> "text_paragraphs"

\* smartChunkDocument: { ...doc.metadata, parentId: doc.id, chunkType }; the
\* rows of a tabular chunk are modelled by smartChunkCsv
smartChunkDocument(doc) ==
  [n \in 1..ChunkCount(doc.metadata.source) |->
     [id |-> <<doc.id, n>>,
      metadata |-> [source |-> doc.metadata.source,
                    dataSourceId |-> doc.metadata.dataSourceId,
                    type |-> doc.metadata.type,
                    parentId |-> doc.id,
                    chunkType |-> chunkType(Files[doc.metadata.source].ext)]]]

\* chunkDocuments: chunks.push(...docChunks) for each document in order
RECURSIVE chunkDocuments(_)
chunkDocuments(documents) ==
  IF documents = <<>> THEN <<>>
  ELSE smartChunkDocument(Head(documents)) \o chunkDocuments(Tail(documents))

\* the ids and metadatas handed to collection.add: those of the chunks
\* generateEmbeddings returned a record for
EmbeddingRecords(chunks, embedded) ==
  [n \in 1..Len(embedded) |->
     [id |-> chunks[embedded[n]].id, metadata |-> chunks[embedded[n]].metadata]]

RunRecordsOf(dataSourceId, d, outcomes) ==
  EmbeddingRecords(chunkDocuments(Documents(dataSourceId, d)),
                   generateEmbeddings(ChunkDocuments(LoadDocuments(d)), outcomes).results)

\* a batch fails, succeeds at once or succeeds on its last attempt
RecordOutcomes ==
  [1..MaxBatches -> {<<FALSE, FALSE, FALSE>>, <<TRUE, TRUE, TRUE>>, <<FALSE, FALSE, TRUE>>}]

KnowledgeBase == [type |-> "directory", path |-> "kb"]

RecordInputs ==
  { Pending("storeEmbeddings", [dataSourceId |-> s, desc |-> d, outcomes |-> o]) :
      s \in SourceIds, d \in Descriptors \cup {KnowledgeBase}, o \in RecordOutcomes }

ApplyStoreEmbeddings ==
  /\ fn.op = "storeEmbeddings" /\ ~fn.done
  /\ fn' = [fn EXCEPT !.done = TRUE,
                      !.result = RunRecordsOf(fn.args.dataSourceId, fn.args.desc,
                                              fn.args.outcomes)]
  /\ UNCHANGED <<lifecycleVars, rc, boot, mcp>>

\* the descriptors loadDocuments is applied to
LoaderInputs ==
  { Pending("loadDocuments", [desc |-> d]) :
      d \in Descriptors \cup {[type |-> "directory", path |-> "mixed"]} }

ApplyLoadDocuments ==
  /\ fn.op = "loadDocuments" /\ ~fn.done
  /\ fn' = [fn EXCEPT !.done = TRUE, !.result = LoadDocuments(fn.args.desc)]
  /\ UNCHANGED <<lifecycleVars, rc, boot, mcp>>

ApplyLevenshteinDistance ==
  /\ fn.op = "levenshteinDistance" /\ ~fn.done
  /\ fn' = [fn EXCEPT !.done = TRUE,
                      !.result = levenshteinDistance(fn.args.str1, fn.args.str2)]
  /\ UNCHANGED <<lifecycleVars, rc, boot, mcp>>

InitFunctions ==
  /\ dataSources = <<>>
  /\ vectorStores = <<>>
  /\ collections = <<>>
  /\ db = <<>>
  /\ runs = <<>>
  /\ usedIds = {}
  /\ apiKey = TRUE
  /\ rc = NoCall
  /\ boot = NoBoot
  /\ mcp = NoMcp
  /\ fn \in LevenshteinInputs \cup MatcherInputs \cup LoaderInputs
           \cup EmbeddingInputs \cup ChunkerInputs
           \cup RecordInputs

NextFunctions ==
  \/ ApplyLevenshteinDistance
  \/ ApplyFindPotentialNameMatches
  \/ ApplyLoadDocuments
  \/ ApplyGenerateEmbeddings
  \/ ApplySmartChunkDocument
  \/ ApplyStoreEmbeddings

SpecFunctions == InitFunctions /\ [][NextFunctions]_vars

----------------------------------------------------------------------------
(* Startup (routes/agents.ts, lines 8-11): RagService.getInstance calls     *)
(* initializeFromDatabase and the AgentService constructor calls            *)
(* loadAgentsFromDatabase; neither is awaited, so each runs to its first    *)
(* await and the two go on in the order their queries resolve.              *)

MaxAgents == 2

\* the ids of the persisted data sources
PersistedIds == {"s1", "s2"}

\* the rows of prisma.ragDataSource at startup
PersistedRows ==
  [PersistedIds -> {[status |-> "ready", documentCount |-> 2],
                    [status |-> "configured", documentCount |-> Undefined]}]

DefaultStore == "default-chromadb"

\* the vectorStores column of a persisted agent
AgentStoreLists ==
  {<<>>, <<"datastore_s1">>, <<"datastore_s2">>, <<"ghost", "datastore_s1">>, <<"ghost">>}

\* the rows of prisma.aiAgent at startup, in findMany order
AgentRows ==
  UNION { { [k \in 1..n |-> [id |-> k, vectorStores |-> lists[k]]] :
              lists \in [1..n -> AgentStoreLists] } : n \in 1..MaxAgents }

\* the data source restored from a row (the descriptor columns are not
\* among the columns the rows of the model keep)
RestoredDataSource(row) ==
  [desc |-> NoDesc, status |-> row.status, documentCount |-> row.documentCount]

\* vectorCount: source.documentCount || 0
RestoredVectorStore(row) ==
  [status |-> "ready",
   vectorCount |-> IF row.documentCount = Undefined THEN 0 ELSE row.documentCount]

\* vectorStores: agent.vectorStores.length > 0 ? agent.vectorStores : ['default-chromadb']
TypedAgent(row) ==
  [id |-> row.id,
   vectorStores |-> IF Len(row.vectorStores) > 0 THEN row.vectorStores
                    ELSE <<DefaultStore>>]

\* agent.vectorStores.filter(storeId => this.ragService.getVectorStore(storeId))
ValidVectorStores(list) == SelectSeq(list, LAMBDA id : id \in DOMAIN vectorStores)

\* the cleanup loop from agent i on, up to its next await: the agents whose
\* list loses nothing are passed; the first that loses a reference gets the
\* filtered list and its updateAiAgent is awaited
CleanupFrom(agents, i) ==
  LET stop == { n \in i..Len(agents) :
                  /\ \A k \in i..(n - 1) :
                       Len(ValidVectorStores(agents[k].vectorStores))
                         = Len(agents[k].vectorStores)
                  /\ Len(ValidVectorStores(agents[n].vectorStores))
                       # Len(agents[n].vectorStores) }
  IN  IF stop = {}
      THEN [agents |-> agents, cursor |-> 0, agent |-> "loaded"]
      ELSE LET n == CHOOSE x \in stop : TRUE
           IN  [agents |-> [agents EXCEPT ![n].vectorStores = ValidVectorStores(@)],
                cursor |-> n, agent |-> "update"]

\* prisma.ragDataSource.findMany() settles; a rejection is caught in
\* loadDataSourcesFromDatabase, which returns []
RagFindMany(ok) ==
  /\ boot.rag = "findMany"
  /\ boot' = [boot EXCEPT !.rag = IF ok THEN "disconnect" ELSE "restored"]
  /\ UNCHANGED <<lifecycleVars, rc, fn, mcp>>

\* prisma.$disconnect() settles and initializeFromDatabase goes through the
\* rows it got: every source is put in the Map, and the vector store of
\* every ready source
RagDisconnect(ok) ==
  /\ boot.rag = "disconnect"
  /\ boot' = [boot EXCEPT !.rag = "restored"]
  /\ IF ok
     THEN /\ dataSources' = [s \in DOMAIN db |-> RestoredDataSource(db[s])]
          /\ vectorStores' =
               [v \in { VectorStoreId(s) : s \in { x \in DOMAIN db : db[x].status = "ready" } } |->
                  RestoredVectorStore(db[CHOOSE s \in DOMAIN db : VectorStoreId(s) = v])]
     ELSE UNCHANGED <<dataSources, vectorStores>>
  /\ UNCHANGED <<collections, db, runs, usedIds, apiKey, rc, fn, mcp>>

\* dbService.getAllAiAgents() settles: the agents are put in the Map and the
\* cleanup loop starts; a rejection is caught and logged
LoadAgents(ok) ==
  /\ boot.agent = "getAll"
  /\ boot' = IF ok
             THEN LET c == CleanupFrom([k \in 1..Len(boot.rows) |-> TypedAgent(boot.rows[k])], 1)
                  IN  [boot EXCEPT !.agents = c.agents, !.cursor = c.cursor, !.agent = c.agent]
             ELSE [boot EXCEPT !.agent = "failed"]
  /\ UNCHANGED <<lifecycleVars, rc, fn, mcp>>

\* dbService.updateAiAgent settles (a rejection is logged) and the cleanup
\* loop goes on with the next agent
AgentUpdateSettles(ok) ==
  /\ boot.agent = "update"
  /\ LET c == CleanupFrom(boot.agents, boot.cursor + 1)
     IN  boot' = [boot EXCEPT
                    !.rows = IF ok
                             THEN [@ EXCEPT ![boot.cursor].vectorStores =
                                     boot.agents[boot.cursor].vectorStores]
                             ELSE @,
                    !.agents = c.agents, !.cursor = c.cursor, !.agent = c.agent]
  /\ UNCHANGED <<lifecycleVars, rc, fn, mcp>>

\* the process has just required routes/agents.ts: both loads have issued
\* their query
InitStartup ==
  /\ dataSources = <<>>
  /\ vectorStores = <<>>
  /\ collections = <<>>
  /\ db \in PersistedRows
  /\ runs = <<>>
  /\ usedIds = PersistedIds
  /\ apiKey = TRUE
  /\ rc = NoCall
  /\ fn = NoApplication
  /\ mcp = NoMcp
  /\ \E rows \in AgentRows :
       boot = [rag |-> "findMany", agent |-> "getAll", saved |-> rows, rows |-> rows,
               agents |-> <<>>, cursor |-> 0]

NextStartup ==
  \/ \E ok \in BOOLEAN : RagFindMany(ok)
  \/ \E ok \in BOOLEAN : RagDisconnect(ok)
  \/ \E ok \in BOOLEAN : LoadAgents(ok)
  \/ \E ok \in BOOLEAN : AgentUpdateSettles(ok)

SpecStartup == InitStartup /\ [][NextStartup]_vars

----------------------------------------------------------------------------
(* McpServerService (backend/src/services/mcpServerService.ts).             *)
(* mcp.servers is the Map from server id to McpServer object; mcp.objects   *)
(* are the McpServer objects ever made, each its status and its process     *)
(* field (0 is undefined); mcp.procs are the child processes spawned, each  *)
(* with the object its 'exit' and 'error' handlers close over; mcp.calls    *)
(* are the stopServer, updateServer and deleteServer calls that have not    *)
(* returned or whose once('exit') listener is still registered.             *)

MaxProcs == 2
MaxObjects == 3
MaxCalls == 2

ServerId == "m1"

\* a child process runs until it has exited; killed: SIGKILL has been sent
LiveStates == {"alive", "terminating"}

McpSet(objects, o, status, process) ==
  [objects EXCEPT ![o] = [status |-> status, process |-> process]]

\* the McpServer object the Map holds for the server
Current == mcp.servers[ServerId]

\* startServer: spawn gives a running child, or a child whose 'error' event
\* is on its way, or throws
StartServer(spawned) ==
  /\ ServerId \in DOMAIN mcp.servers
  /\ mcp.objects[Current].status # "running"
  /\ Len(mcp.procs) < MaxProcs
  /\ mcp' =
       IF spawned = "throws"
       THEN [mcp EXCEPT !.objects[Current].status = "error"]
       ELSE [mcp EXCEPT
               !.procs = Append(@, [state |-> IF spawned = "ok" THEN "alive" ELSE "failing",
                                    object |-> Current]),
               !.objects = McpSet(@, Current, "running", Len(mcp.procs) + 1)]
  /\ UNCHANGED <<lifecycleVars, rc, fn, boot>>

\* serverProcess.on('error'): the handler writes to the object startServer held
ProcessError(p) ==
  /\ p \in 1..Len(mcp.procs)
  /\ mcp.procs[p].state = "failing"
  /\ mcp' = [mcp EXCEPT !.procs[p].state = "failed",
                        !.objects = McpSet(@, mcp.procs[p].object, "error", 0)]
  /\ UNCHANGED <<lifecycleVars, rc, fn, boot>>

\* the continuation of a call whose stopServer promise has resolved
AfterStop(c) ==
  IF c.op = "stopServer" THEN [c EXCEPT !.pc = "done"] ELSE [c EXCEPT !.pc = "db"]

\* a call record is kept while the call is pending or its listener registered
Kept(cs) == { c \in cs : c.pc # "done" \/ c.listening }

\* the objects after the once('exit') listeners of the calls cs have run
RECURSIVE OnceExit(_, _)
OnceExit(objects, cs) ==
  IF cs = {} THEN objects
  ELSE LET c == CHOOSE x \in cs : TRUE
       IN  OnceExit(McpSet(objects, c.object, "stopped", 0), cs \ {c})

\* the child exits: the 'exit' handler of startServer runs first (status by
\* exit code, process undefined), then the once('exit') listeners of the
\* stopServer calls, each on the object it held, resolving its promise
ProcessExit(p, code) ==
  /\ p \in 1..Len(mcp.procs)
  /\ mcp.procs[p].state \in LiveStates \cup {"killed"}
  /\ LET heard == { c \in mcp.calls : c.listening /\ c.process = p }
     IN  mcp' = [mcp EXCEPT
                   !.procs[p].state = "exited",
                   !.objects = OnceExit(McpSet(@, mcp.procs[p].object,
                                               IF code = 0 THEN "stopped" ELSE "error", 0),
                                        heard),
                   !.calls = Kept({ IF c \in heard
                                    THEN [(IF c.pc = "stopping" THEN AfterStop(c) ELSE c)
                                            EXCEPT !.listening = FALSE]
                                    ELSE c : c \in mcp.calls })]
  /\ UNCHANGED <<lifecycleVars, rc, fn, boot>>

\* process.kill('SIGTERM')
Signalled(procs, p) ==
  IF procs[p].state = "alive" THEN [procs EXCEPT ![p].state = "terminating"] ELSE procs

\* stopServer up to its return or to the promise it waits on, for the call
\* record c of the caller
StopServerStep(c) ==
  LET o == Current
      p == mcp.objects[o].process
  IN  IF mcp.objects[o].status # "running" \/ p = 0
      THEN [mcp EXCEPT !.objects = McpSet(@, o, "stopped", 0),
                       !.calls = Kept(@ \cup {AfterStop(c)})]
      ELSE [mcp EXCEPT !.procs = Signalled(@, p),
                       !.calls = @ \cup {[c EXCEPT !.pc = "stopping", !.object = o,
                                                   !.process = p, !.listening = TRUE]}]

NewCall(op) ==
  [op |-> op, pc |-> "new", object |-> 0, process |-> 0, listening |-> FALSE,
   copy |-> [status |-> "none", process |-> 0]]

StopServer ==
  /\ ServerId \in DOMAIN mcp.servers
  /\ Cardinality(mcp.calls) < MaxCalls
  /\ mcp' = StopServerStep(NewCall("stopServer"))
  /\ UNCHANGED <<lifecycleVars, rc, fn, boot>>

\* the 5 s timer of stopServer fires: SIGKILL, status stopped, the promise
\* resolves; the once('exit') listener stays registered
StopTimeout(c) ==
  /\ c \in mcp.calls
  /\ c.pc = "stopping"
  /\ mcp' = [mcp EXCEPT
               !.procs = IF @[c.process].state \in LiveStates
                         THEN [@ EXCEPT ![c.process].state = "killed"] ELSE @,
               !.objects = McpSet(@, c.object, "stopped", 0),
               !.calls = (@ \ {c}) \cup {AfterStop(c)}]
  /\ UNCHANGED <<lifecycleVars, rc, fn, boot>>

\* updateServer: updatedServer = { ...existingServer, ...serverData } is
\* made first, with the status and the process of that moment; a running
\* server is then stopped, and the row is written
UpdateServer ==
  /\ ServerId \in DOMAIN mcp.servers
  /\ Cardinality(mcp.calls) < MaxCalls
  /\ Len(mcp.objects) < MaxObjects
  /\ LET c == [NewCall("updateServer") EXCEPT !.copy = mcp.objects[Current]]
     IN  mcp' = IF mcp.objects[Current].status = "running"
                THEN StopServerStep(c)
                ELSE [mcp EXCEPT !.calls = @ \cup {[c EXCEPT !.pc = "db"]}]
  /\ UNCHANGED <<lifecycleVars, rc, fn, boot>>

\* deleteServer: a running server is stopped, then the row is deleted
DeleteServer ==
  /\ ServerId \in DOMAIN mcp.servers
  /\ Cardinality(mcp.calls) < MaxCalls
  /\ LET c == NewCall("deleteServer")
     IN  mcp' = IF mcp.objects[Current].status = "running"
                THEN StopServerStep(c)
                ELSE [mcp EXCEPT !.calls = @ \cup {[c EXCEPT !.pc = "db"]}]
  /\ UNCHANGED <<lifecycleVars, rc, fn, boot>>

\* dbService.updateMcpServer / deleteMcpServer settles: this.servers.set(id,
\* updatedServer), or this.servers.delete(id); a rejection leaves the Map
DbSettles(c, ok) ==
  /\ c \in mcp.calls
  /\ c.pc = "db"
  /\ LET calls == Kept((mcp.calls \ {c}) \cup {[c EXCEPT !.pc = "done"]})
     IN  mcp' =
           IF ~ok THEN [mcp EXCEPT !.calls = calls]
           ELSE IF c.op = "updateServer"
           THEN [mcp EXCEPT !.objects = Append(@, c.copy),
                            !.servers = MapSet(@, ServerId, Len(mcp.objects) + 1),
                            !.calls = calls]
           ELSE [mcp EXCEPT !.servers = MapDelete(@, ServerId), !.calls = calls]
  /\ UNCHANGED <<lifecycleVars, rc, fn, boot>>

\* createServer has registered one server, stopped
InitMcp ==
  /\ dataSources = <<>>
  /\ vectorStores = <<>>
  /\ collections = <<>>
  /\ db = <<>>
  /\ runs = <<>>
  /\ usedIds = {}
  /\ apiKey = TRUE
  /\ rc = NoCall
  /\ fn = NoApplication
  /\ boot = NoBoot
  /\ mcp = [servers |-> [s \in {ServerId} |-> 1],
            objects |-> <<[status |-> "stopped", process |-> 0]>>,
            procs |-> <<>>, calls |-> {}]

NextMcp ==
  \/ \E spawned \in {"ok", "error", "throws"} : StartServer(spawned)
  \/ \E p \in 1..MaxProcs : ProcessError(p)
  \/ \E p \in 1..MaxProcs, code \in {0, 1} : ProcessExit(p, code)
  \/ StopServer
  \/ \E c \in mcp.calls : StopTimeout(c)
  \/ UpdateServer
  \/ DeleteServer
  \/ \E c \in mcp.calls, ok \in BOOLEAN : DbSettles(c, ok)

SpecMcp == InitMcp /\ [][NextMcp]_vars

----------------------------------------------------------------------------
(* Properties of the lifecycle *)

\* the step in which run r leaves the pipeline: it has written its final
\* status (ready through its own reference, or error in the catch block)
RunSettles(r) ==
  /\ r \in RunIds
  /\ runs[r].pc \in {"load", "embed", "getcoll", "add"}
  /\ runs'[r].pc \in {"dbwrite", "done"}

\* the step in which run r, its records stored, marks its source ready
Stores(r) ==
  /\ r \in RunIds
  /\ runs[r].pc = "add"
  /\ runs'[r].pc = "dbwrite"
  /\ runs'[r].pend.status = "ready"

\* the step in which run r enters the catch block from storeEmbeddings
StoreThrows(r) ==
  /\ r \in RunIds
  /\ runs[r].pc \in {"getcoll", "add"}
  /\ runs'[r].pc \in {"dbwrite", "done"}
  /\ runs'[r].pend.status # "ready"

\* the step in which run r enters the catch block from getEmbeddings()
SetupThrows(r) ==
  /\ r \in RunIds
  /\ runs[r].pc = "load"
  /\ runs'[r].pc \in {"dbwrite", "done"}
  /\ runs'[r].pend.status # "ready"
  /\ ~apiKey

StatusChanged(s) ==
  /\ s \in DOMAIN dataSources
  /\ s \in DOMAIN dataSources'
  /\ dataSources'[s].status # dataSources[s].status

LifecycleTransitions ==
  {<<"configured", "processing">>, <<"processing", "ready">>, <<"processing", "error">>}

\* C1: every change of a data source's status is configured->processing,
\* processing->ready, processing->error, or a reset to configured made by
\* retryDataSourceProcessing; nothing else changes the status.
C1_OnlyLifecycleTransitions ==
  [][\A s \in SourceIds :
       StatusChanged(s) =>
         \/ <<dataSources[s].status, dataSources'[s].status>> \in LifecycleTransitions
         \/ dataSources'[s].status = "configured" /\ RetryDataSourceProcessing(s)]_vars

\* C2: at most one processing run per source is in flight at any time.
C2_SingleRunInFlight ==
  \A s \in SourceIds : Cardinality({r \in RunIds : runs[r].src = s /\ InFlight(r)}) <= 1

\* C3: when some batches fail after all retries and the others succeed, the
\* run ends with the source ready and documentCount equal to the number of
\* chunks of the successfully embedded batches.
C3_CountsEmbeddedChunksOnly ==
  [][\A r \in RunIds :
       ( /\ Stores(r)
         /\ ~runs[r].stale
         /\ runs[r].src \in DOMAIN dataSources
         /\ runs[r].embedded # {}
         /\ runs[r].embedded # BatchStarts(runs[r].chunks) )
       => /\ dataSources'[runs[r].src].status = "ready"
          /\ dataSources'[runs[r].src].documentCount = EmbeddingCount(runs[r])]_vars

\* C4: every processing run that starts eventually leaves the source, as
\* read through getDataSource(id), in status ready or error, also when
\* updateDataSource is called while the run is in flight: when the run has
\* made its last write the source, if still registered, is ready or error.
\* (Stated for the runs that have embedded at least one batch.)
C4_RunLeavesTerminalStatus ==
  [][\A r \in RunIds :
       ( /\ RunSettles(r)
         /\ runs[r].embedded # {}
         /\ runs[r].src \in DOMAIN dataSources' )
       => dataSources'[runs[r].src].status \in {"ready", "error"}]_vars

\* a stage of run r fails in this step or has failed: a loadFile threw, the
\* embedding client cannot be set up, or the vector-store call rejects
StageFails(r) ==
  \/ LoaderFailed(runs[r].desc)
  \/ SetupThrows(r)
  \/ StoreThrows(r)

\* C5: if any stage of a processing run fails, the source ends that run in
\* status error and never in status ready.  (Stated for the runs that hand
\* at least one record to the store or do not reach collection.add: whether
\* add() of an empty list resolves is the vector database's choice.)
C5_FailedStageEndsInError ==
  [][\A r \in RunIds :
       ( /\ RunSettles(r)
         /\ StageFails(r)
         /\ Stores(r) => runs[r].embedded # {}
         /\ runs[r].src \in DOMAIN dataSources' )
       => dataSources'[runs[r].src].status = "error"]_vars

\* no other invocation for the source of run r is scheduled or in flight
RunsAlone(r) ==
  \A q \in RunIds \ {r} : runs[q].src = runs[r].src => runs[q].pc = "done"

\* C6: after a source that was already processed successfully is
\* re-processed and the new run succeeds, the collection holds exactly the
\* records of the latest run.
C6_CollectionHoldsLatestRunOnly ==
  [][\A r \in RunIds :
       ( /\ Stores(r)
         /\ RunsAlone(r)
         /\ runs[r].src \in DOMAIN dataSources
         /\ dataSources[runs[r].src].documentCount # Undefined
         /\ collections[runs[r].src] # {} )
       => collections'[runs[r].src] = RunRecords(r, runs[r])]_vars

\* C7: re-running the pipeline on an unchanged source ends with status ready
\* and the documentCount of the previous run: a run settles in the catch
\* block only when its setup or its store fails, and a run that stores its
\* records leaves the count the previous run recorded.
C7_RetryKeepsCount ==
  [][\A r \in RunIds :
       /\ (RunSettles(r) /\ ~Stores(r)) =>
            \/ StoreThrows(r)
            \/ SetupThrows(r)
       /\ ( /\ Stores(r)
            /\ ~runs[r].stale
            /\ runs[r].src \in DOMAIN dataSources
            /\ dataSources[runs[r].src].documentCount # Undefined )
          => /\ dataSources'[runs[r].src].status = "ready"
             /\ dataSources'[runs[r].src].documentCount
                  = dataSources[runs[r].src].documentCount]_vars

\* a second run of a source has stored its records after the first run had
\* finished and recorded its count
C7_Witness ==
  \E s \in DOMAIN dataSources :
    /\ Len(runs) >= 2
    /\ runs[1].pc = "done" /\ runs[1].src = s
    /\ runs[2].pc = "dbwrite" /\ runs[2].src = s /\ runs[2].pend.status = "ready"
    /\ s \in DOMAIN db /\ db[s].status = "ready" /\ db[s].documentCount > 0
    /\ dataSources[s].status = "ready"
    /\ dataSources[s].documentCount = db[s].documentCount
    /\ \E b1, b2 \in {0, batchSize} : {<<1, b1>>, <<2, b2>>} \subseteq collections[s]

\* C25: when a run of a source that was processed successfully before
\* fails, the source keeps its documentCount and its vector store keeps the
\* vector count recorded for it.
C25_FailedRunKeepsRecordedCounts ==
  [][\A r \in RunIds :
       ( /\ RunSettles(r) /\ ~Stores(r)
         /\ runs[r].replaced
         /\ runs[r].src \in DOMAIN dataSources
         /\ dataSources[runs[r].src].documentCount # Undefined )
       => /\ dataSources'[runs[r].src].documentCount
               = dataSources[runs[r].src].documentCount
          /\ vectorStores'[VectorStoreId(runs[r].src)].vectorCount > 0]_vars

\* C26: a data source whose status is processing has a run scheduled or in
\* flight that will move it to ready or error.  (Stated for the sources
\* whose collection holds records.)
C26_ProcessingHasRun ==
  \A s \in DOMAIN dataSources :
    ( /\ dataSources[s].status = "processing"
      /\ s \in DOMAIN collections
      /\ collections[s] # {} )
    => \E r \in RunIds : runs[r].src = s /\ runs[r].pc # "done"

\* C27: the vector store datastore_<id> is ready only if its data source
\* id is ready; while the source is configured, processing or in error the
\* store is not ready.
C27_StoreReadyOnlyIfSourceReady ==
  \A s \in DOMAIN dataSources :
    ( /\ VectorStoreId(s) \in DOMAIN vectorStores
      /\ vectorStores[VectorStoreId(s)].status = "ready" )
    => dataSources[s].status = "ready"

\* createDataSource has taken id s and its write of the row has failed
CreateFailed(s) == s \notin usedIds /\ s \in usedIds' /\ s \notin DOMAIN db'

\* C28: a createDataSource whose write of the row fails changes neither the
\* data sources nor the vector stores and schedules no run; no source, no
\* vector store and no run ever exists for its id.
C28_FailedCreateLeavesNothing ==
  /\ [][\A s \in SourceIds :
          CreateFailed(s) =>
            /\ dataSources' = dataSources
            /\ vectorStores' = vectorStores
            /\ runs' = runs]_vars
  /\ [](\A s \in usedIds :
          s \notin DOMAIN db =>
            /\ s \notin DOMAIN dataSources
            /\ VectorStoreId(s) \notin DOMAIN vectorStores
            /\ \A r \in RunIds : runs[r].src # s)

\* the write of the row of s1 has failed
C28_Witness ==
  /\ "s1" \in usedIds
  /\ "s1" \notin DOMAIN db
  /\ dataSources = <<>>
  /\ runs = <<>>

\* C29: whatever the order in which the two startup loads resolve, no
\* agent loses, in memory or in its row, a reference to the vector store
\* datastore_<id> of a persisted ready data source.
C29_CleanupKeepsRestoredStores ==
  \A k \in 1..Len(boot.saved) : \A s \in DOMAIN db :
    ( /\ db[s].status = "ready"
      /\ \E x \in 1..Len(boot.saved[k].vectorStores) :
           boot.saved[k].vectorStores[x] = VectorStoreId(s) )
    => /\ \E x \in 1..Len(boot.rows[k].vectorStores) :
            boot.rows[k].vectorStores[x] = VectorStoreId(s)
       /\ boot.agents # <<>> =>
            \E x \in 1..Len(boot.agents[k].vectorStores) :
              boot.agents[k].vectorStores[x] = VectorStoreId(s)

\* createDataSource(s) has just returned
Created(s) == s \notin DOMAIN dataSources /\ s \in DOMAIN dataSources'

\* an invocation of autoProcessDataSource(s) has been entered
RunStarted(s) == \E r \in RunIds : runs[r].src = s /\ runs[r].pc # "timer"

TimerFires(r) == r \in RunIds /\ runs[r].pc = "timer" /\ runs'[r].pc # "timer"

\* run r was scheduled by retryDataSourceProcessing while an earlier run of
\* its source was in flight, and no updateDataSource has replaced the source
\* object since that run started
ScheduledByRetry(r) ==
  \E x \in 1..(r - 1) :
    runs[x].src = runs[r].src /\ InFlight(x) /\ ~runs[x].stale

\* C16: the run that retryDataSourceProcessing schedules is a full pipeline
\* run whatever the status was and whatever runs are in flight: when its
\* timer fires on a source that still exists, it starts loading (here: the
\* earlier run has stored a non-empty list of embeddings).
C16_RetryStartsFullRun ==
  [][\A r \in RunIds :
       /\ TimerFires(r)
       /\ ScheduledByRetry(r)
       /\ runs[r].src \in DOMAIN dataSources
       /\ VectorStoreId(runs[r].src) \in DOMAIN vectorStores
       /\ vectorStores[VectorStoreId(runs[r].src)].vectorCount > 0
       => runs'[r].pc = "load"]_vars

\* source s was created and deleteDataSource(s) has succeeded
Deleted(s) == s \in DOMAIN db /\ s \notin DOMAIN dataSources

\* no invocation of autoProcessDataSource(s) is scheduled or in flight
Quiet(s) == \A r \in RunIds : runs[r].src = s => runs[r].pc = "done"

\* C17: after deleteDataSource(s) the vector store datastore_<s> is removed
\* or orphan-marked: getVectorStore does not return it in status ready (so
\* that retrieveContext against it returns the empty list); stated for a
\* store that holds vectors.
C17_DeleteRetiresVectorStore ==
  \A s \in SourceIds :
    Deleted(s) /\ Quiet(s) =>
      ~ /\ VectorStoreId(s) \in DOMAIN vectorStores
        /\ vectorStores[VectorStoreId(s)].status = "ready"
        /\ vectorStores[VectorStoreId(s)].vectorCount > 0

\* C18: once the mutations of source s have completed (no run scheduled or
\* in flight), the durable row of s exists exactly when the in-memory entry
\* exists, and with the same status.
C18_DurableAgreesWithMemory ==
  \A s \in SourceIds :
    Quiet(s) =>
      /\ s \in DOMAIN db <=> s \in DOMAIN dataSources
      /\ s \in DOMAIN db /\ s \in DOMAIN dataSources =>
           db[s].status = dataSources[s].status

----------------------------------------------------------------------------
(* Properties of retrieveContext *)

\* the records of the collection the call read
CallPool == Pool(rc.pool)

\* C8: retrieveContext never throws, and it returns the empty list when the
\* vector store id is unknown or its store is not ready, when getCollection
\* fails (the collection does not exist), when the query embedding fails, and
\* when the nearest-neighbour query or the scan fails.
C8_NeverThrowsEmptyOnFailure ==
  /\ rc.pc # "threw"
  /\ rc.pc = "returned" /\ (rc.status # "ready" \/ rc.failed # "none")
       => rc.contexts = <<>>

\* a call on a ready store whose semantic step found nothing usable and whose
\* scan failed has returned; calls have also returned for a store that is
\* not ready
C8_Witness ==
  /\ rc.pc = "returned"
  /\ rc.status = "ready"
  /\ rc.failed = "get"
  /\ rc.searched /\ rc.scanned

\* C9: every returned context carries the source and dataSourceId of the
\* metadata of the very record whose text is its content, "Unknown source"
\* and the vector store id standing in for a missing field; also on the
\* fuzzy path when scanned records have a document that is not a string.
C9_ContextCarriesOwnMetadata ==
  rc.pc = "returned" =>
    \A i \in 1..Len(rc.contexts) :
      \E k \in 1..Len(CallPool) :
        /\ CallPool[k].doc.isString
        /\ CallPool[k].doc.text = rc.contexts[i].content
        /\ ~CallPool[k].meta.isNull
        /\ rc.contexts[i] = Context(CallPool[k].doc.text, CallPool[k].meta,
                                    rc.vectorStoreId)

\* C10: the fuzzy fallback runs iff the semantic step has completed with no
\* usable result; the returned list is then either the usable semantic
\* results, at most 5, or fuzzy results, at most 3, never both.
C10_FuzzyIffNoSemanticResult ==
  /\ rc.scanned => rc.searched /\ rc.usable = 0
  /\ rc.pc = "returned" => (rc.scanned <=> rc.searched /\ rc.usable = 0)
  /\ rc.pc = "returned" /\ rc.usable > 0 =>
       /\ Len(rc.contexts) = rc.usable
       /\ Len(rc.contexts) <= 5
       /\ rc.contexts = SemanticContexts(QueryResult(CallPool, rc.pattern),
                                         rc.vectorStoreId)
  /\ rc.pc = "returned" /\ rc.usable = 0 =>
       /\ Len(rc.contexts) <= 3
       /\ rc.contexts # <<>> => rc.scanned

\* the fallback has returned the top 3 of more than 3 fuzzy matches
C10_Witness ==
  /\ rc.pc = "returned"
  /\ rc.scanned
  /\ Len(rc.contexts) = 3
  /\ Len(findPotentialNameMatches(QueryText(rc.query), DocStrings(CallPool))) > 3

\* the results of the nearest-neighbour query of the call
CallResults == QueryResult(CallPool, rc.pattern).records

\* C11: a nearest-neighbour result (a string with metadata and a numeric
\* distance) is kept as context exactly when its distance is at most 0.8,
\* the distance 0.8 itself included.
C11_KeepsDistanceUpToLimit ==
  rc.searched /\ rc.pattern \in {"near", "edge", "far"} =>
    rc.usable = Cardinality({ k \in 1..Len(CallResults) :
                                /\ CallResults[k].doc.isString
                                /\ ~CallResults[k].meta.isNull
                                /\ CallResults[k].distance <= 80 })

Chen == <<"c", "h", "e", "n">>

Chin == <<"c", "h", "i", "n">>

\* C12: on a ready collection of at most 100 records, a query containing
\* "chin" whose semantic step yields nothing usable returns every record
\* whose text contains "chen" (here: a record with metadata of its own, in a
\* collection with at most 3 fuzzy matches, the scan having succeeded).
C12_ChinFindsChen ==
  /\ rc.pc = "returned" /\ rc.scanned /\ rc.failed = "none"
  /\ Len(CallPool) <= 100
  /\ includes(toLowerCase(QueryText(rc.query)), Chin)
  /\ Len(findPotentialNameMatches(QueryText(rc.query), DocStrings(CallPool))) <= 3
  => \A k \in 1..Len(CallPool) :
       /\ CallPool[k].doc.isString
       /\ ~CallPool[k].meta.isNull
       /\ includes(toLowerCase(CallPool[k].doc.text), Chen)
       => \E i \in 1..Len(rc.contexts) :
            rc.contexts[i].content = CallPool[k].doc.text

----------------------------------------------------------------------------
(* Properties of the helper methods *)

\* the Levenshtein distance with unit-cost insertion, deletion and
\* substitution, by its defining recursion
RECURSIVE EditDistance(_, _)
EditDistance(a, b) ==
  IF a = <<>> THEN Len(b)
  ELSE IF b = <<>> THEN Len(a)
  ELSE Min2(EditDistance(Tail(a), Tail(b)) + (IF Head(a) = Head(b) THEN 0 ELSE 1),
            Min2(EditDistance(Tail(a), b) + 1, EditDistance(a, Tail(b)) + 1))

\* C14: levenshteinDistance is symmetric, is 0 on identical strings, and is
\* the standard Levenshtein distance, for all strings over Alphabet of length
\* at most MaxLen.
C14_LevenshteinIsStandard ==
  fn.op = "levenshteinDistance" /\ fn.done =>
    /\ fn.result = levenshteinDistance(fn.args.str2, fn.args.str1)
    /\ fn.args.str1 = fn.args.str2 => fn.result = 0
    /\ fn.result = EditDistance(fn.args.str1, fn.args.str2)

\* the distance of two different strings of full length has been computed
C14_Witness ==
  /\ fn.op = "levenshteinDistance" /\ fn.done
  /\ fn.args.str1 = <<"a", "b", "c">>
  /\ fn.args.str2 = <<"b", "c", "a">>
  /\ fn.result = 2

\* C13: every entry the fuzzy matcher returns has a score s with
\* 0.5 < s <= 1, and the returned list is in non-increasing order of score.
C13_ScoresBoundedAndSorted ==
  fn.op = "findPotentialNameMatches" /\ fn.done =>
    /\ \A i \in 1..Len(fn.result) :
         /\ Greater(fn.result[i].score, Frac(1, 2))
         /\ ~Greater(fn.result[i].score, Frac(1, 1))
    /\ \A i, j \in 1..Len(fn.result) :
         i < j => ~Greater(fn.result[j].score, fn.result[i].score)

\* the matcher has returned three matches of which the one of greatest score
\* was the last in the input, the other two being ties of a smaller score
C13_Witness ==
  /\ fn.op = "findPotentialNameMatches" /\ fn.done
  /\ Len(fn.result) = 3
  /\ fn.result[1].index = 2
  /\ Greater(fn.result[1].score, fn.result[2].score)
  /\ ~Greater(fn.result[2].score, fn.result[3].score)
  /\ Greater(Frac(1, 1), fn.result[1].score)

\* the variants of one same entry of the name table, the first found in the
\* query and the second in the candidate
NamePairs(queryLower, docLower) ==
  UNION { { <<allVariants(e)[v], allVariants(e)[c]>> :
              v \in { x \in 1..Len(allVariants(e)) :
                        includes(queryLower, allVariants(e)[x]) },
              c \in { x \in 1..Len(allVariants(e)) :
                        includes(docLower, allVariants(e)[x]) } } :
          e \in 1..Len(nameReplacements) }

\* the scores that count for a candidate, and 0
CountedScores(queryLower, docLower) ==
  { s \in { PairScore(p[1], p[2]) : p \in NamePairs(queryLower, docLower) } :
      Greater(s, Frac(6, 10)) }
  \cup { s \in { PairScore(queryLower, substring0(docLower, 100)) } :
           Greater(s, Frac(7, 10)) }
  \cup { Frac(0, 1) }

\* s has the value of the greatest member of scores
IsMaximum(s, scores) ==
  /\ \E c \in scores : c.num * s.den = s.num * c.den /\ s.den > 0
  /\ \A c \in scores : ~Greater(c, s)

C19_BadFileDoesNotAbortDirectory ==
  fn.op = "loadDocuments" /\ fn.done /\ fn.args.desc.type = "directory" =>
    \A i \in 1..Len(LoadDirectory(fn.args.desc.path)) :
      ~LoadFileThrows(LoadDirectory(fn.args.desc.path)[i]) =>
        \E k \in 1..Len(fn.result) :
          fn.result[k] = LoadDirectory(fn.args.desc.path)[i]

\* some attempt of the batch holding chunk k succeeded
BatchEmbedded(outcomes, k) ==
  \E a \in 1..maxRetries : outcomes[((k - 1) \div batchSize) + 1][a]

\* C20: generateEmbeddings cuts the chunk list into consecutive batches of
\* 50; its output holds, in input order and each once, exactly the chunks
\* of the batches for which some attempt succeeded, and every batch is
\* attempted, also after a batch that exhausted its attempts.
C20_BatchesInOrderFullOrAbsent ==
  fn.op = "generateEmbeddings" /\ fn.done =>
    LET n == fn.args.chunks
        out == fn.result.results
        tried == fn.result.attempted
    IN  /\ \A x \in 1..Len(out) : \A y \in 1..Len(out) : x < y => out[x] < out[y]
        /\ { out[x] : x \in 1..Len(out) }
             = { k \in 1..n : BatchEmbedded(fn.args.outcomes, k) }
        /\ Len(tried) = (n + batchSize - 1) \div batchSize
        /\ \A b \in 1..Len(tried) : tried[b] = (b - 1) * batchSize

\* a first batch that fails three times, a second that succeeds on its last
\* attempt, and a short third batch that succeeds
C20_Witness ==
  /\ fn.op = "generateEmbeddings" /\ fn.done
  /\ fn.args.chunks = 3 * batchSize - 30
  /\ \A a \in 1..maxRetries : ~fn.args.outcomes[1][a]
  /\ fn.args.outcomes[2] = <<FALSE, FALSE, TRUE>>
  /\ fn.args.outcomes[3][1]
  /\ Len(fn.result.results) = 2 * batchSize - 30
  /\ fn.result.results[1] = batchSize + 1

\* the waits the claim gives to the first, second and third retry
ClaimedBackoff == <<1000, 2000, 4000>>

\* C21: a failing batch is retried up to 3 times, after waits of 1, 2 and
\* 4 seconds; it is dropped only after the initial attempt and all 3
\* retries have failed.
C21_ThreeRetriesBackoff124 ==
  fn.op = "generateEmbeddings" /\ fn.done =>
    \A b \in 1..Len(fn.result.retries) :
      LET w == fn.result.retries[b]
      IN  /\ w.calls <= 1 + 3
          /\ w.sleeps = SubSeq(ClaimedBackoff, 1, w.calls - 1)
          /\ ~w.success => w.calls = 1 + 3

\* the number of lines of a text: one more than its line feeds
LineCount(content) ==
  Cardinality({ p \in 1..Len(content) : content[p] = NewLine }) + 1

\* the text of lines from..to of content (counted from 0), line feeds
\* between them included
LinesOf(content, from, to) ==
  LET Starts(n) == { p \in 0..Len(content) :
                       /\ p = 0 \/ content[p] = NewLine
                       /\ Cardinality({ q \in 1..p : content[q] = NewLine }) = n }
      first == CHOOSE p \in Starts(from) : TRUE
      last  == IF to + 1 = LineCount(content) THEN Len(content) + 1
               ELSE CHOOSE p \in Starts(to + 1) : TRUE
  IN  SubSeq(content, first + 1, last - 1)

\* C23: a .csv text of L lines gives ceil(L/10) chunks, the k-th (from 0)
\* holding lines 10k to min(10k+9, L-1), which are its startRow and endRow;
\* the chunk contents joined by line feeds are the text again.
C23_CsvChunksTileTheText ==
  fn.op = "smartChunkDocument" /\ fn.done =>
    LET L == LineCount(fn.args.content) IN
    /\ Len(fn.result) * 10 >= L /\ (Len(fn.result) - 1) * 10 < L
    /\ \A n \in 1..Len(fn.result) :
         /\ fn.result[n].startRow = 10 * (n - 1)
         /\ fn.result[n].endRow = Min2(10 * (n - 1) + 9, L - 1)
         /\ fn.result[n].content =
              LinesOf(fn.args.content, 10 * (n - 1), Min2(10 * (n - 1) + 9, L - 1))
    /\ join([n \in 1..Len(fn.result) |-> fn.result[n].content]) = fn.args.content

\* a text of 21 rows gives three chunks, the last of one row
C23_Witness ==
  /\ fn.op = "smartChunkDocument" /\ fn.done
  /\ fn.args.content = Rows(21)
  /\ Len(fn.result) = 3
  /\ fn.result[3].startRow = 20 /\ fn.result[3].endRow = 20
  /\ fn.result[3].content = <<"r">>
  /\ Len(fn.result[2].content) = 19

\* the files a source of descriptor d reads
FilesOf(d) ==
  CASE d.type = "file"      -> {d.path}
    [] d.type = "directory" -> { DirEntries[d.path][k] : k \in 1..Len(DirEntries[d.path]) }
    [] OTHER                -> {}

\* the tag the claim gives to a file extension
ClaimedTag(ext) ==
  IF ext = ".csv" THEN "csv_rows"
  ELSE IF ext = ".json" THEN "json_properties" ELSE "text_paragraphs"

\* C24: every record a run writes carries the path of its originating file
\* and the id of the source processed, as its Document has them, the id of
\* that Document and the chunk-strategy tag of the file's extension.
C24_RecordsCarryAttribution ==
  fn.op = "storeEmbeddings" /\ fn.done =>
    \A n \in 1..Len(fn.result) :
      LET m    == fn.result[n].metadata
          docs == Documents(fn.args.dataSourceId, fn.args.desc)
      IN  /\ m.source \in FilesOf(fn.args.desc)
          /\ m.dataSourceId = fn.args.dataSourceId
          /\ m.chunkType = ClaimedTag(Files[m.source].ext)
          /\ \E k \in 1..Len(docs) :
               /\ docs[k].id = m.parentId
               /\ docs[k].metadata.source = m.source
               /\ docs[k].metadata.dataSourceId = m.dataSourceId

\* the directory of three kinds of file, every batch embedded: records of
\* all three tags are written
C24_Witness ==
  /\ fn.op = "storeEmbeddings" /\ fn.done
  /\ fn.args.desc = KnowledgeBase
  /\ { fn.result[n].metadata.chunkType : n \in 1..Len(fn.result) }
       = {"csv_rows", "json_properties", "text_paragraphs"}
  /\ fn.result[1].metadata.source = "kb/e.json"
  /\ fn.result[Len(fn.result)].metadata.parentId = <<"doc", 3>>

----------------------------------------------------------------------------
(* Properties of McpServerService *)

\* C30: a server reported running has a child process attached that has not
\* exited, and every running child process is the one attached to the
\* server's current record; so a server updated while running is reported
\* stopped.
C30_RunningIffLiveProcessAttached ==
  /\ ServerId \in DOMAIN mcp.servers =>
       ( mcp.objects[Current].status = "running" =>
           /\ mcp.objects[Current].process # 0
           /\ mcp.procs[mcp.objects[Current].process].state
                \in LiveStates \cup {"failing"} )
  /\ \A p \in 1..Len(mcp.procs) :
       mcp.procs[p].state \in LiveStates =>
         /\ ServerId \in DOMAIN mcp.servers
         /\ mcp.objects[Current].process = p

====
